---- MODULE Spec2Model ----
(***************************************************************************)
(* Model of the CRA scraper ingest pipeline:                               *)
(*   - CRARateLimiter   (src/src/crawlee/cra_scraper/_rate_limiter.py)     *)
(*   - CRACrawler       (src/src/crawlee/cra_scraper/_cra_crawler.py)      *)
(*   - CRADataValidator (src/src/crawlee/cra_scraper/_data_validator.py)   *)
(*   - CRAVectorizer    (src/src/crawlee/cra_scraper/_vectorizer.py)       *)
(* Time is counted in whole seconds.  Every action is the code that runs   *)
(* between two suspension points (await) of one coroutine.                 *)
(***************************************************************************)
EXTENDS Integers, Sequences, FiniteSets, TLC

\* ------------------------------------------------------------------ bounds
\* number of coroutines; each calls acquire() once
MaxCalls == 4
\* number of those coroutines that are page handlers of a crawl
MaxPages == 3
\* number of times the clock is advanced by the environment
MaxTicks == 2
\* limiter configuration (constructor arguments, small values)
max_per_minute == 1
max_per_hour == 3
max_per_day == 4
\* largest number of chunks a page is split into
MaxChunks == 2
\* number of runs started by crawl() on one crawler object
MaxCrawls == 2
\* largest number of matching links a page has to one host
MaxLinks == 100
\* longest text given to the chunker, largest chunk_size of a vectorizer
MaxTextLen == 6
MaxChunkSize == 3
\* largest number of words of a content given to the validator
MaxWords == 2

\* ------------------------------------------------------- program constants
request_delay == 2
MinuteHorizon == 60
HourHorizon == 3600
DayHorizon == 86400
\* `requests[:100]`: links queued per page
LinkCap == 100
\* `start + self._chunk_size - 200`: where the search for a sentence end begins
SentenceLookback == 200
\* CRAConfig: the lengths of content _extract_page_data accepts and keeps
min_text_length == 50
max_text_length == 10000

Procs == 1..MaxCalls
Pages == 1..MaxPages
Windows == {"minute", "hour", "day"}
\* amounts by which the environment lets the clock run between two steps
TickSteps == {1, 2, MinuteHorizon, HourHorizon, DayHorizon}

VARIABLES
  now,                \* time.time()
  ticks,              \* number of clock advances so far (bounds the model)
  requests,           \* self._requests: window name -> list of timestamps
  last_request_time,  \* self._last_request_time (0 = no request yet)
  lock,               \* the coroutines holding self._lock ({} when free)
  waiters,            \* FIFO of coroutines blocked in self._lock.acquire()
  pc,                 \* position of each coroutine
  current_time,       \* local variable current_time of each acquire() call
  wake,               \* deadline of the asyncio.sleep() each coroutine is in
  log,                \* history: one entry per recorded request
  last_stats,         \* last dictionary returned by get_stats()
  stats,              \* CRACrawler._stats
  delta,              \* history: increments each page handler made to _stats
  calls,              \* history: collaborator calls made for each page
  chunks,             \* len(vectorized_chunks) of each page handler
  result,             \* history: how the handling of each page ended
  crawler,            \* self._crawler is not None
  run,                \* position of crawl()
  runs,               \* number of crawl() invocations that started a run
  earlier,            \* history: pages handled before the current crawl()
  final_stats,        \* what crawl() returned (<<>> = nothing yet)
  links,              \* the page's matching links: host -> number of links
  queued,             \* the requests handed to context.add_requests
  discovery,          \* position of _discover_links
  text,               \* data['content'], a sequence of characters
  chunk_size,         \* CRAVectorizer._chunk_size
  overlap_size,       \* CRAVectorizer._overlap_size
  max_chunks_per_page, \* CRAVectorizer._max_chunks_per_page
  base_data,          \* the dictionary passed to vectorize_tax_data
  split_chunks,       \* what _split_text_into_chunks returned
  chunk_data_list,    \* local chunk_data_list of vectorize_tax_data
  vectors,            \* number of vectors vectorize_batch returned
  records,            \* what vectorize_tax_data returned
  phase,              \* position of vectorize_tax_data
  scan,               \* position of _split_text_into_chunks
  scan_start,         \* local start of _split_text_into_chunks
  scan_chunks,        \* local chunks of _split_text_into_chunks
  segment,            \* the last start, end and chunk of the loop (<<>> = none)
  page_data,          \* the dictionary handed to the validator (data)
  applied,            \* the validator method that was called ("none" yet)
  returned,           \* what the method returned or raised
  stored_by           \* the store method the handler called ("none" yet)

limiterVars == <<now, ticks, requests, last_request_time, lock, waiters,
                 current_time, wake, log, last_stats>>
crawlerVars == <<stats, delta, calls, chunks, result>>
runVars == <<crawler, run, runs, earlier, final_stats>>
discoverVars == <<links, queued, discovery>>
scanVars == <<scan, scan_start, scan_chunks, segment>>
chunkVars == <<text, chunk_size, overlap_size, max_chunks_per_page, base_data,
               split_chunks, chunk_data_list, vectors, records, phase,
               scanVars>>
validateVars == <<page_data, applied, returned, stored_by>>
extraVars == <<runVars, discoverVars, chunkVars, validateVars>>
vars == <<now, ticks, requests, last_request_time, lock, waiters, pc,
          current_time, wake, log, last_stats, stats, delta, calls, chunks,
          result, extraVars>>

\* ----------------------------------------------------------------- helpers
RECURSIVE SeqMin(_)
SeqMin(s) ==
  IF Len(s) = 1 THEN s[1]
  ELSE LET m == SeqMin(Tail(s)) IN IF s[1] < m THEN s[1] ELSE m

Horizon(w) ==
  CASE w = "minute" -> MinuteHorizon
    [] w = "hour" -> HourHorizon
    [] w = "day" -> DayHorizon

\* (variant: no timestamp is ever removed)
cleanup_old_requests_never(reqs, t) == reqs

\* (variant: a timestamp exactly one horizon old is kept)
cleanup_old_requests_inclusive(reqs, t) ==
  [w \in Windows |-> SelectSeq(reqs[w], LAMBDA x : x >= t - Horizon(w))]

\* _cleanup_old_requests: keep the timestamps t > current_time - horizon
cleanup_old_requests(reqs, t) ==
  [w \in Windows |-> SelectSeq(reqs[w], LAMBDA x : x > t - Horizon(w))]

\* the wait computed for one window that is at capacity
window_wait(reqs, w, t) == Horizon(w) - (t - SeqMin(reqs[w])) + 1

window_full(reqs, w, limit, t) ==
  /\ Len(reqs[w]) >= limit
  /\ window_wait(reqs, w, t) > 0

\* _wait_if_rate_limited: the time slept (0 when it does not sleep); the
\* function sleeps for the first window found at capacity and returns
wait_if_rate_limited(reqs, t) ==
  IF window_full(reqs, "minute", max_per_minute, t)
    THEN window_wait(reqs, "minute", t)
  ELSE IF window_full(reqs, "hour", max_per_hour, t)
    THEN window_wait(reqs, "hour", t)
  ELSE IF window_full(reqs, "day", max_per_day, t)
    THEN window_wait(reqs, "day", t)
  ELSE 0

\* minimum delay between requests: the time slept (0 when no sleep)
delay_wait(t, last) ==
  IF last > 0 /\ t - last < request_delay
    THEN request_delay - (t - last)
    ELSE 0

Max(a, b) == IF a >= b THEN a ELSE b

\* ------------------------------------------------------------ CRARateLimiter
\* (variant: the lock is taken without looking at its holder)
lock_free_unguarded == waiters = <<>>

\* asyncio.Lock: acquire() succeeds at once only when the lock is free and
\* nobody is queued for it
lock_free == lock = {} /\ waiters = <<>>

\* (variant: the lock is freed but the first queued coroutine is not woken)
release_lost_wakeup(p, to) ==
  /\ lock' = {}
  /\ waiters' = waiters
  /\ pc' = [pc EXCEPT ![p] = to]

\* leaving `async with self._lock`: the lock goes to the first queued
\* coroutine, which resumes in a later step; p continues at position to
release(p, to) ==
  IF waiters = <<>>
    THEN /\ lock' = {}
         /\ waiters' = waiters
         /\ pc' = [pc EXCEPT ![p] = to]
    ELSE /\ lock' = {Head(waiters)}
         /\ waiters' = Tail(waiters)
         /\ pc' = [pc EXCEPT ![p] = to, ![Head(waiters)] = "granted"]

\* (variant: the request is not appended to the day window)
record_request_not_in_day(p, reqs, t, clock) ==
  /\ requests' = [w \in Windows |->
                    IF w = "day" THEN reqs[w] ELSE Append(reqs[w], t)]
  /\ last_request_time' = t
  /\ log' = Append(log, [caller |-> p, stamp |-> t, at |-> clock])
  /\ release(p, "returned")

\* "Record this request" and return from acquire(); t is current_time and
\* clock the time at which the call returns
record_request(p, reqs, t, clock) ==
  /\ requests' = [w \in Windows |-> Append(reqs[w], t)]
  /\ last_request_time' = t
  /\ log' = Append(log, [caller |-> p, stamp |-> t, at |-> clock])
  /\ release(p, "returned")

\* "Ensure minimum delay between requests", then record unless it sleeps
min_delay(p, reqs, t, clock) ==
  LET d == delay_wait(t, last_request_time) IN
  IF d > 0
    THEN /\ pc' = [pc EXCEPT ![p] = "sleep_delay"]
         /\ wake' = [wake EXCEPT ![p] = clock + d]
         /\ requests' = reqs
         /\ lock' = {p}
         /\ UNCHANGED <<last_request_time, waiters, log>>
    ELSE /\ record_request(p, reqs, t, clock)
         /\ wake' = wake

\* acquire() from taking the lock to its first suspension (or its return)
acquire_body(p) ==
  LET t == now
      reqs == cleanup_old_requests(requests, t)
      w == wait_if_rate_limited(reqs, t)
  IN /\ current_time' = [current_time EXCEPT ![p] = t]
     /\ IF w > 0
          THEN /\ pc' = [pc EXCEPT ![p] = "sleep_window"]
               /\ wake' = [wake EXCEPT ![p] = t + w]
               /\ requests' = reqs
               /\ lock' = {p}
               /\ UNCHANGED <<last_request_time, waiters, log>>
          ELSE min_delay(p, reqs, t, now)

\* a coroutine calls acquire(); callers are interchangeable, so they start
\* in the order of their numbers
Acquire(p) ==
  /\ pc[p] = "idle"
  /\ \A q \in Procs : q < p => pc[q] # "idle"
  /\ IF lock_free
       THEN acquire_body(p)
       ELSE /\ waiters' = Append(waiters, p)
            /\ pc' = [pc EXCEPT ![p] = "lockwait"]
            /\ UNCHANGED <<requests, last_request_time, lock, current_time,
                           wake, log>>
  /\ UNCHANGED <<now, ticks, last_stats, crawlerVars, extraVars>>

\* a queued coroutine that was handed the lock resumes
LockGranted(p) ==
  /\ pc[p] = "granted"
  /\ acquire_body(p)
  /\ UNCHANGED <<now, ticks, last_stats, crawlerVars, extraVars>>

\* the sleep of _wait_if_rate_limited ends; current_time is not sampled again
WakeWindow(p) ==
  /\ pc[p] = "sleep_window"
  /\ now' = Max(now, wake[p])
  /\ min_delay(p, requests, current_time[p], now')
  /\ UNCHANGED <<ticks, current_time, last_stats, crawlerVars, extraVars>>

\* the minimum-delay sleep ends; current_time = time.time()
WakeDelay(p) ==
  /\ pc[p] = "sleep_delay"
  /\ now' = Max(now, wake[p])
  /\ current_time' = [current_time EXCEPT ![p] = now']
  /\ record_request(p, requests, now', now')
  /\ UNCHANGED <<ticks, wake, last_stats, crawlerVars, extraVars>>

\* (variant: the cancelled call leaves without releasing the lock)
Cancel_keeps_lock(p) ==
  /\ pc[p] \in {"sleep_window", "sleep_delay"}
  /\ pc' = [pc EXCEPT ![p] = "cancelled"]
  /\ UNCHANGED <<now, ticks, requests, last_request_time, lock, waiters,
                 current_time, wake, log, last_stats, crawlerVars, extraVars>>

\* the task running acquire() is cancelled while it sleeps: CancelledError
\* is raised by asyncio.sleep and leaves `async with self._lock`
Cancel(p) ==
  /\ pc[p] \in {"sleep_window", "sleep_delay"}
  /\ release(p, "cancelled")
  /\ UNCHANGED <<now, ticks, requests, last_request_time, current_time, wake,
                 log, last_stats, crawlerVars, extraVars>>

\* get_stats(): prunes the windows and reports their sizes and the ceilings
GetStats ==
  LET reqs == cleanup_old_requests(requests, now) IN
  /\ requests' = reqs
  /\ last_stats' = [requests_last_minute |-> Len(reqs["minute"]),
                    requests_last_hour |-> Len(reqs["hour"]),
                    requests_last_day |-> Len(reqs["day"]),
                    max_per_minute |-> max_per_minute,
                    max_per_hour |-> max_per_hour,
                    max_per_day |-> max_per_day]
  /\ UNCHANGED <<now, ticks, last_request_time, lock, waiters, pc,
                 current_time, wake, log, crawlerVars, extraVars>>

\* time passes; a sleeping coroutine is resumed when its deadline is reached,
\* so the clock does not run past the deadline of a pending sleep
Tick ==
  /\ ticks < MaxTicks
  /\ \E d \in TickSteps :
       /\ \A p \in Procs :
            pc[p] \in {"sleep_window", "sleep_delay"} => now + d <= wake[p]
       /\ now' = now + d
  /\ ticks' = ticks + 1
  /\ UNCHANGED <<requests, last_request_time, lock, waiters, pc,
                 current_time, wake, log, last_stats, crawlerVars, extraVars>>

NoStats == [requests_last_minute |-> 0, requests_last_hour |-> 0,
            requests_last_day |-> 0, max_per_minute |-> max_per_minute,
            max_per_hour |-> max_per_hour, max_per_day |-> max_per_day]

ZeroStats == [pages_crawled |-> 0, pages_processed |-> 0, pages_stored |-> 0,
              chunks_created |-> 0, validation_errors |-> 0,
              processing_errors |-> 0]

CoreInit ==
  /\ now = 1
  /\ ticks = 0
  /\ requests = [w \in Windows |-> <<>>]
  /\ last_request_time = 0
  /\ lock = {}
  /\ waiters = <<>>
  /\ pc = [p \in Procs |-> "idle"]
  /\ current_time = [p \in Procs |-> 0]
  /\ wake = [p \in Procs |-> 0]
  /\ log = <<>>
  /\ last_stats = NoStats
  /\ stats = ZeroStats
  /\ delta = [p \in Procs |-> ZeroStats]
  /\ calls = [p \in Procs |-> <<>>]
  /\ chunks = [p \in Procs |-> 0]
  /\ result = [p \in Procs |-> "none"]
  /\ crawler = FALSE
  /\ run = "idle"
  /\ runs = 0
  /\ earlier = {}
  /\ final_stats = <<>>

\* no page is in link discovery
DiscoverIdle ==
  /\ links = <<>>
  /\ queued = {}
  /\ discovery = "idle"

\* a vectorizer with the default configuration and no text to split
\* _split_text_into_chunks has not been called
ScanIdle ==
  /\ scan = "idle"
  /\ scan_start = 0
  /\ scan_chunks = <<>>
  /\ segment = <<>>

ChunkIdle ==
  /\ ScanIdle
  /\ text = <<>>
  /\ chunk_size = 3000
  /\ overlap_size = 500
  /\ max_chunks_per_page = 10
  /\ base_data = <<>>
  /\ split_chunks = <<>>
  /\ chunk_data_list = <<>>
  /\ vectors = 0
  /\ records = <<>>
  /\ phase = "idle"

\* no dictionary has been handed to the validator
ValidateIdle ==
  /\ page_data = <<>>
  /\ applied = "none"
  /\ returned = <<>>
  /\ stored_by = "none"

Init == CoreInit /\ DiscoverIdle /\ ChunkIdle /\ ValidateIdle

Next ==
  \/ \E p \in Procs : Acquire(p)
  \/ \E p \in Procs : LockGranted(p)
  \/ \E p \in Procs : WakeWindow(p)
  \/ \E p \in Procs : WakeDelay(p)
  \/ \E p \in Procs : Cancel(p)
  \/ GetStats
  \/ Tick

Spec == Init /\ [][Next]_vars

\* ---------------------------------------------------------------- CRACrawler
\* the increments of one handler step: counter name -> amount
inc(f, n) == [ZeroStats EXCEPT ![f] = n]
add(s, d) == [f \in DOMAIN s |-> s[f] + d[f]]

\* self._stats['pages_crawled'] += 1
on_crawled == inc("pages_crawled", 1)

\* (variant: a page without data is counted as a processing error)
on_no_data_counted == inc("processing_errors", 1)

\* `if not data: ... return`
on_no_data == ZeroStats

\* (variant: the rejected page is counted as processed as well)
on_validation_error_and_processed ==
  add(inc("validation_errors", 1), inc("pages_processed", 1))

\* (variant: the rejection is counted under processing_errors)
on_validation_error_as_processing == inc("processing_errors", 1)

\* `except ValidationError`: self._stats['validation_errors'] += 1
on_validation_error == inc("validation_errors", 1)

\* self._stats['pages_processed'] += 1
on_validated == inc("pages_processed", 1)

\* (variant: chunks_created counts the page, not its chunks)
on_stored_per_page(n) == add(inc("pages_stored", n), inc("chunks_created", 1))

\* pages_stored and chunks_created += len(vectorized_chunks)
on_stored(n) == add(inc("pages_stored", n), inc("chunks_created", n))

\* (variant: the failure is caught but not counted)
on_processing_error_uncounted == ZeroStats

\* `except Exception`: self._stats['processing_errors'] += 1
on_processing_error == inc("processing_errors", 1)

\* (variant: the step writes back a copy of the counters private to the page,
\* overwriting what the other pages added meanwhile)
count_from_private_copy(p, d) ==
  /\ stats' = add(delta[p], d)
  /\ delta' = [delta EXCEPT ![p] = add(@, d)]

\* one handler step adds its increments d to the counters (and to the
\* history of page p)
count(p, d) ==
  /\ stats' = add(stats, d)
  /\ delta' = [delta EXCEPT ![p] = add(@, d)]

\* (variant: the page is counted and extracted without waiting for acquire)
BeginPage_without_acquire(p) ==
  /\ pc[p] \in {"idle", "returned"}
  /\ count(p, on_crawled)
  /\ calls' = [calls EXCEPT ![p] = Append(@, "extract")]
  /\ pc' = [pc EXCEPT ![p] = "extracting"]
  /\ UNCHANGED <<extraVars, limiterVars, chunks, result>>

\* _handle_page after acquire() returned, up to the first await of
\* _extract_page_data
BeginPage(p) ==
  /\ pc[p] = "returned"
  /\ count(p, on_crawled)
  /\ calls' = [calls EXCEPT ![p] = Append(@, "extract")]
  /\ pc' = [pc EXCEPT ![p] = "extracting"]
  /\ UNCHANGED <<extraVars, limiterVars, chunks, result>>

\* _extract_page_data returns (None when it found too little or caught an
\* exception of the page), then validate_data runs and vectorize_tax_data
\* splits the content and suspends in the embedder
ExtractDone(p) ==
  /\ pc[p] = "extracting"
  /\ \E ext \in {"data", "no_data", "extract_error"} :
       IF ext # "data"
         THEN /\ count(p, on_no_data)
              /\ result' = [result EXCEPT ![p] = ext]
              /\ pc' = [pc EXCEPT ![p] = "finished"]
              /\ UNCHANGED <<calls, chunks>>
         ELSE \E val \in {"ok", "invalid", "validate_failed"} :
           /\ calls' = [calls EXCEPT ![p] =
                 IF val = "ok" THEN @ \o <<"validate", "split", "embed">>
                 ELSE Append(@, "validate")]
           /\ IF val = "invalid"
                THEN /\ count(p, on_validation_error)
                     /\ result' = [result EXCEPT ![p] = val]
                     /\ pc' = [pc EXCEPT ![p] = "finished"]
                     /\ UNCHANGED chunks
              ELSE IF val = "validate_failed"
                THEN /\ count(p, on_processing_error)
                     /\ result' = [result EXCEPT ![p] = val]
                     /\ pc' = [pc EXCEPT ![p] = "finished"]
                     /\ UNCHANGED chunks
              ELSE /\ count(p, on_validated)
                   /\ \E n \in 1..MaxChunks :
                        chunks' = [chunks EXCEPT ![p] = n]
                   /\ pc' = [pc EXCEPT ![p] = "embedding"]
                   /\ UNCHANGED result
  /\ UNCHANGED <<extraVars, limiterVars>>

\* (variant: every page goes through the batch path)
store_call_always_batch(n) == "store_batch"

\* (variant: every page goes through the single-record path)
store_call_never_batch(n) == "store_data"

\* store path chosen by `if len(vectorized_chunks) > 1`
store_call(n) == IF n > 1 THEN "store_batch" ELSE "store_data"

\* vectorize_batch returns or raises; on success the chunks are stored
\* (store_batch / store_data run without suspending) and counted
EmbedDone(p) ==
  /\ pc[p] = "embedding"
  /\ \E emb \in {"ok", "embed_failed"} :
       IF emb # "ok"
         THEN /\ count(p, on_processing_error)
              /\ result' = [result EXCEPT ![p] = emb]
              /\ pc' = [pc EXCEPT ![p] = "finished"]
              /\ UNCHANGED calls
         ELSE \E sto \in {"stored", "store_failed"} :
           /\ calls' = [calls EXCEPT ![p] = Append(@, store_call(chunks[p]))]
           /\ result' = [result EXCEPT ![p] = sto]
           /\ IF sto = "store_failed"
                THEN /\ count(p, on_processing_error)
                     /\ pc' = [pc EXCEPT ![p] = "finished"]
                ELSE /\ count(p, on_stored(chunks[p]))
                     /\ \E base \in BOOLEAN :
                          pc' = [pc EXCEPT ![p] =
                                   IF base THEN "discovering" ELSE "finished"]
  /\ UNCHANGED <<extraVars, limiterVars, chunks>>

\* _discover_links returns; it catches its own exceptions
DiscoverDone(p) ==
  /\ pc[p] = "discovering"
  /\ pc' = [pc EXCEPT ![p] = "finished"]
  /\ calls' = [calls EXCEPT ![p] = Append(@, "discover")]
  /\ UNCHANGED <<extraVars, limiterVars, stats, delta, chunks, result>>

NextCrawl ==
  \/ \E p \in Pages : Acquire(p)
  \/ \E p \in Pages : LockGranted(p)
  \/ \E p \in Pages : WakeWindow(p)
  \/ \E p \in Pages : WakeDelay(p)
  \/ \E p \in Pages : BeginPage(p)
  \/ \E p \in Pages : ExtractDone(p)
  \/ \E p \in Pages : EmbedDone(p)
  \/ \E p \in Pages : DiscoverDone(p)

CrawlSpec == Init /\ [][NextCrawl]_vars

\* ------------------------------------------------------------- crawl()
\* (variant: crawl() keeps the counters of the previous invocation)
reset_stats_kept == stats

\* `# Reset stats`: self._stats is rebound to a dictionary of six zeros
reset_stats == ZeroStats

\* crawl() up to `await self._crawler.run([url])`: initialize() on the first
\* use (its failure is raised to the caller), then the counters are reset.
\* The histories of the pages start afresh with the invocation.
StartCrawl ==
  /\ run # "running"
  /\ runs < MaxCrawls
  /\ final_stats' = <<>>
  /\ \E init_ok \in BOOLEAN :
       IF ~crawler /\ ~init_ok
         THEN /\ run' = "init_failed"
              /\ UNCHANGED <<crawler, crawlerVars, earlier, runs>>
         ELSE /\ crawler' = TRUE
              /\ runs' = runs + 1
              /\ stats' = reset_stats
              /\ earlier' = {p \in Pages : pc[p] # "idle"}
              /\ delta' = [p \in Procs |-> ZeroStats]
              /\ calls' = [p \in Procs |-> <<>>]
              /\ chunks' = [p \in Procs |-> 0]
              /\ result' = [p \in Procs |-> "none"]
              /\ run' = "running"
  /\ UNCHANGED <<limiterVars, pc, discoverVars, chunkVars,
                 validateVars>>

\* the crawler created by initialize() invokes the handler for a request of
\* the running crawl
HandlePage(p) ==
  /\ run = "running"
  /\ Acquire(p)

\* self._crawler.run() returned (no handler is in progress); crawl() builds
\* final_stats: the counters, the limiter's get_stats() and the store's
\* get_collection_info(), which raises when the store cannot be queried
FinishCrawl ==
  LET reqs == cleanup_old_requests(requests, now)
      limiter_stats == [requests_last_minute |-> Len(reqs["minute"]),
                        requests_last_hour |-> Len(reqs["hour"]),
                        requests_last_day |-> Len(reqs["day"]),
                        max_per_minute |-> max_per_minute,
                        max_per_hour |-> max_per_hour,
                        max_per_day |-> max_per_day]
  IN
  /\ run = "running"
  /\ \A p \in Pages : pc[p] \in {"idle", "finished"}
  /\ requests' = reqs
  /\ last_stats' = limiter_stats
  /\ \E info \in {"info", "raises"} :
       IF info = "raises"
         THEN /\ run' = "raised"
              /\ UNCHANGED final_stats
         ELSE /\ run' = "returned"
              /\ final_stats' =
                   <<[pages_crawled |-> stats.pages_crawled,
                      pages_processed |-> stats.pages_processed,
                      pages_stored |-> stats.pages_stored,
                      chunks_created |-> stats.chunks_created,
                      validation_errors |-> stats.validation_errors,
                      processing_errors |-> stats.processing_errors,
                      rate_limiter_stats |-> limiter_stats,
                      collection_stats |-> info]>>
  /\ UNCHANGED <<now, ticks, last_request_time, lock, waiters, pc,
                 current_time, wake, log, crawlerVars, crawler, runs, earlier,
                 discoverVars, chunkVars, validateVars>>

NextRun ==
  \/ StartCrawl
  \/ \E p \in Pages : HandlePage(p)
  \/ \E p \in Pages : LockGranted(p)
  \/ \E p \in Pages : WakeWindow(p)
  \/ \E p \in Pages : WakeDelay(p)
  \/ \E p \in Pages : BeginPage(p)
  \/ \E p \in Pages : ExtractDone(p)
  \/ \E p \in Pages : EmbedDone(p)
  \/ \E p \in Pages : DiscoverDone(p)
  \/ FinishCrawl

RunSpec == Init /\ [][NextRun]_vars

\* ----------------------------------------------------- link discovery
\* characters are one-letter strings, a host is a sequence of characters
canada_ca == <<"c", "a", "n", "a", "d", "a", ".", "c", "a">>

\* CRADataValidator._allowed_domains (default ['canada.ca'])
allowed_domains == {canada_ca}

\* the hosts (netloc of the absolute URL) the links of a page point to:
\* www.canada.ca, CANADA.CA, example.com, canada.ca.evil.io and the empty
\* host of a URL without authority
Hosts ==
  << <<"w", "w", "w", ".">> \o canada_ca,
     <<"C", "A", "N", "A", "D", "A", ".", "C", "A">>,
     <<"e", "x", "a", "m", "p", "l", "e", ".", "c", "o", "m">>,
     canada_ca \o <<".", "e", "v", "i", "l", ".", "i", "o">>,
     <<>> >>

\* the letters, for str.lower() and str.upper()
Uppers ==
  <<"A", "B", "C", "D", "E", "F", "G", "H", "I", "J", "K", "L", "M",
    "N", "O", "P", "Q", "R", "S", "T", "U", "V", "W", "X", "Y", "Z">>
Lowers ==
  <<"a", "b", "c", "d", "e", "f", "g", "h", "i", "j", "k", "l", "m",
    "n", "o", "p", "q", "r", "s", "t", "u", "v", "w", "x", "y", "z">>
Digits == <<"0", "1", "2", "3", "4", "5", "6", "7", "8", "9">>
Range(f) == {f[i] : i \in DOMAIN f}
UpperSet == Range(Uppers)
LowerSet == Range(Lowers)
DigitSet == Range(Digits)
is_upper(c) == c \in UpperSet
is_lower(c) == c \in LowerSet
is_digit(c) == c \in DigitSet
\* \w of the regular expressions
is_word_char(c) == is_upper(c) \/ is_lower(c) \/ is_digit(c) \/ c = "_"

ToLower ==
  [c \in UpperSet |-> Lowers[CHOOSE i \in DOMAIN Uppers : Uppers[i] = c]]
ToUpper ==
  [c \in LowerSet |-> Uppers[CHOOSE i \in DOMAIN Lowers : Lowers[i] = c]]
lower_char(c) == IF is_upper(c) THEN ToLower[c] ELSE c
upper_char(c) == IF is_lower(c) THEN ToUpper[c] ELSE c
lower(str) == [i \in 1..Len(str) |-> lower_char(str[i])]
upper(str) == [i \in 1..Len(str) |-> upper_char(str[i])]

\* str.endswith
endswith(str, suffix) ==
  /\ Len(suffix) <= Len(str)
  /\ SubSeq(str, Len(str) - Len(suffix) + 1, Len(str)) = suffix

\* urlparse(url).netloc: a URL is kept as the index of its host in Hosts and
\* the number of its path
netloc(url) == Hosts[url.host]

\* (variant: every URL is accepted)
validate_url_accepts_all(url) == TRUE

\* CRADataValidator.validate_url: urlparse(url).netloc.lower() ends with an
\* allowed domain
validate_url(url) ==
  LET domain == lower(netloc(url)) IN
  \E allowed \in allowed_domains : endswith(domain, allowed)

\* the absolute URLs of the links of the page
absolute_urls(ls) ==
  UNION {{[host |-> h, path |-> i] : i \in 1..ls[h]} : h \in DOMAIN ls}

\* discovered_links after the loops: the validated URLs, without duplicates
discovered_links(ls) == {url \in absolute_urls(ls) : validate_url(url)}

\* `requests[:100]` of a list built from a set: the set's iteration order
\* decides which URLs come after the first 100 and are left out
first_requests(S) ==
  IF Cardinality(S) <= LinkCap THEN {S}
  ELSE LET k == Cardinality(S) - LinkCap
           tails == {t \in [1..k -> S] :
                       \A i, j \in 1..k : i # j => t[i] # t[j]}
       IN {S \ {t[i] : i \in 1..k} : t \in tails}

\* _discover_links runs to the end: the validated links are queued
Discover ==
  /\ discovery = "page"
  /\ \E reqs \in first_requests(discovered_links(links)) : queued' = reqs
  /\ discovery' = "queued"
  /\ UNCHANGED <<limiterVars, pc, crawlerVars, runVars, links, chunkVars,
                 validateVars>>

\* a page or queue operation raises: `except Exception` logs, nothing queued
DiscoverFails ==
  /\ discovery = "page"
  /\ discovery' = "failed"
  /\ UNCHANGED <<limiterVars, pc, crawlerVars, runVars, links, queued,
                 chunkVars,
                 validateVars>>

\* the links of a page: many to the first host, at most one to each other
DiscoverInit ==
  /\ CoreInit
  /\ links \in [DOMAIN Hosts -> {0, 1, MaxLinks}]
  /\ \A h \in DOMAIN Hosts : h > 1 => links[h] <= 1
  /\ queued = {}
  /\ discovery = "page"
  /\ ChunkIdle
  /\ ValidateIdle

NextDiscover == Discover \/ DiscoverFails

DiscoverSpec == DiscoverInit /\ [][NextDiscover]_vars

\* ------------------------------------------------------ CRADataValidator
\* A title or content is kept as str.split() sees it: its words (sequences of
\* characters without whitespace) and the lengths of the runs of whitespace
\* before, between and after them (gaps has one entry more than words).
RECURSIVE SumSeq(_)
SumSeq(q) == IF q = <<>> THEN 0 ELSE Head(q) + SumSeq(Tail(q))

\* len(text)
text_len(t) == SumSeq(t.gaps) + SumSeq([i \in DOMAIN t.words |-> Len(t.words[i])])

\* ' '.join(text.split())
collapse(t) ==
  [words |-> t.words,
   gaps |-> [i \in 1..(Len(t.words) + 1) |->
               IF i = 1 \/ i = Len(t.words) + 1 THEN 0 ELSE 1]]

\* text.lower()
text_lower(t) == [t EXCEPT !.words = [i \in DOMAIN t.words |-> lower(t.words[i])]]

\* self._tax_keywords, in the order of the dictionary
\* tax, revenue, cra, income, deduction, credit
general_keywords ==
  << <<"t", "a", "x">>, <<"r", "e", "v", "e", "n", "u", "e">>,
    <<"c", "r", "a">>, <<"i", "n", "c", "o", "m", "e">>,
    <<"d", "e", "d", "u", "c", "t", "i", "o", "n">>,
    <<"c", "r", "e", "d", "i", "t">> >>
\* form, t1, t2, t3, t4, t5
forms_keywords ==
  << <<"f", "o", "r", "m">>, <<"t", "1">>, <<"t", "2">>, <<"t", "3">>,
    <<"t", "4">>, <<"t", "5">> >>
\* business, self-employed, corporation, gst, hst
business_keywords ==
  << <<"b", "u", "s", "i", "n", "e", "s", "s">>,
    <<"s", "e", "l", "f", "-", "e", "m", "p", "l", "o", "y", "e", "d">>,
    <<"c", "o", "r", "p", "o", "r", "a", "t", "i", "o", "n">>,
    <<"g", "s", "t">>, <<"h", "s", "t">> >>
\* personal, individual, rrsp, tfsa, pension
personal_keywords ==
  << <<"p", "e", "r", "s", "o", "n", "a", "l">>,
    <<"i", "n", "d", "i", "v", "i", "d", "u", "a", "l">>,
    <<"r", "r", "s", "p">>, <<"t", "f", "s", "a">>,
    <<"p", "e", "n", "s", "i", "o", "n">> >>
tax_keywords ==
  [general |-> general_keywords, forms |-> forms_keywords,
   business |-> business_keywords, personal |-> personal_keywords]
all_keywords ==
  general_keywords \o forms_keywords \o business_keywords \o personal_keywords

\* the positions at which the keyword str occurs in word
occurrences(word, str) ==
  {i \in 1..(Len(word) - Len(str) + 1) :
     word[i] = str[1] /\ SubSeq(word, i, i + Len(str) - 1) = str}

\* `keyword in text` for a keyword without whitespace
contains(t, keyword) ==
  \E k \in DOMAIN t.words : occurrences(t.words[k], keyword) # {}

\* \b before position i and after position j of a word, for a match that
\* starts and ends with a word character
boundary_before(word, i) == i = 1 \/ ~is_word_char(word[i - 1])
boundary_after(word, j) == j = Len(word) \/ ~is_word_char(word[j + 1])

\* re.search(rf'\b{re.escape(keyword)}\b', text)
contains_word(t, keyword) ==
  \E k \in DOMAIN t.words :
    \E i \in occurrences(t.words[k], keyword) :
      /\ boundary_before(t.words[k], i)
      /\ boundary_after(t.words[k], i + Len(keyword) - 1)

\* the value None
None == <<>>

\* the position of a match in a text: the word and the offset in the word
\* (text order is word order, then offset)
before(h, g) == h[1] < g[1] \/ (h[1] = g[1] /\ h[2] < g[2])
first_hit(H) == CHOOSE h \in H : \A g \in H : g = h \/ before(h, g)

\* \d+ at position i: the number of digits from i on
digit_run(word, i) ==
  Cardinality({n \in 1..(Len(word) - i + 1) :
                 \A k \in i..(i + n - 1) : is_digit(word[k])})

\* a letter of the pattern under re.IGNORECASE
letter_at(word, i, c) == i <= Len(word) /\ upper_char(word[i]) = c
\* [1-5] and [A-Z] under re.IGNORECASE
one_to_five_at(word, i) ==
  i <= Len(word) /\ word[i] \in {"1", "2", "3", "4", "5"}
any_letter_at(word, i) ==
  i <= Len(word) /\ (is_upper(word[i]) \/ is_lower(word[i]))

\* form_patterns of extract_form_number, in their order:
\*   1  \bT[1-5][A-Z]?\b    2  \bT[1-5]\d{3}\b    3  \bRC\d+\b    4  \bNR\d+\b
form_patterns == 1..4

\* the length of the match of pattern p that starts at position i of word,
\* 0 when there is none
match_len(p, word, i) ==
  IF ~boundary_before(word, i) THEN 0
  ELSE IF p = 1 THEN
         IF ~(letter_at(word, i, "T") /\ one_to_five_at(word, i + 1)) THEN 0
         ELSE IF any_letter_at(word, i + 2) /\ boundary_after(word, i + 2)
           THEN 3
         ELSE IF boundary_after(word, i + 1) THEN 2
         ELSE 0
  ELSE IF p = 2 THEN
         IF /\ letter_at(word, i, "T") /\ one_to_five_at(word, i + 1)
            /\ digit_run(word, i + 2) >= 3
            /\ boundary_after(word, i + 4)
           THEN 5 ELSE 0
  ELSE LET first == IF p = 3 THEN "R" ELSE "N"
           second == IF p = 3 THEN "C" ELSE "R"
           digits == digit_run(word, i + 2)
       IN IF /\ letter_at(word, i, first) /\ letter_at(word, i + 1, second)
             /\ digits >= 1
             /\ boundary_after(word, i + 1 + digits)
            THEN 2 + digits ELSE 0

\* the starts of the matches of re.findall(pattern, content, re.IGNORECASE)
\* (every pattern starts with T, R or N)
matches(p, t) ==
  {h \in UNION {{<<k, i>> : i \in {j \in 1..Len(t.words[k]) :
                                     upper_char(t.words[k][j])
                                       \in {"T", "R", "N"}}} :
                  k \in DOMAIN t.words} :
     match_len(p, t.words[h[1]], h[2]) > 0}

\* the match of pattern p at h, upper-cased
match_upper(p, t, h) ==
  LET word == t.words[h[1]] IN
  upper(SubSeq(word, h[2], h[2] + match_len(p, word, h[2]) - 1))

\* matches[0].upper() of pattern p
first_match_upper(p, t) == match_upper(p, t, first_hit(matches(p, t)))

\* (variant: the match that comes first in the content wins, whatever its
\* pattern)
extract_form_number_leftmost(content) ==
  LET found == {p \in form_patterns : matches(p, content) # {}}
      hits == UNION {matches(p, content) : p \in found}
  IN IF found = {} THEN None
     ELSE LET h == first_hit(hits) IN
          match_upper(CHOOSE p \in found :
                        /\ h \in matches(p, content)
                        /\ \A q \in found : h \in matches(q, content) => p <= q,
                      content, h)

\* CRADataValidator.extract_form_number: the first match of the first
\* pattern that matches anywhere
extract_form_number(content) ==
  LET found == {p \in form_patterns : matches(p, content) # {}} IN
  IF found = {} THEN None
  ELSE first_match_upper(CHOOSE p \in found : \A q \in found : p <= q,
                         content)

\* the digits of a year as a number (the years compared have four digits,
\* so max() of the strings is the max of the numbers)
digit_value(c) == (CHOOSE i \in DOMAIN Digits : Digits[i] = c) - 1
year_value(y) ==
  1000 * digit_value(y[1]) + 100 * digit_value(y[2])
    + 10 * digit_value(y[3]) + digit_value(y[4])

\* re.findall(r'\b(20[2-3][0-9])\b', content)
year_matches(t) ==
  {SubSeq(t.words[k], i, i + 3) :
     <<k, i>> \in {h \in UNION {{<<k, i>> : i \in 1..(Len(t.words[k]) - 3)} :
                                 k \in DOMAIN t.words} :
                     LET word == t.words[h[1]]
                         i == h[2]
                     IN /\ word[i] = "2" /\ word[i + 1] = "0"
                        /\ word[i + 2] \in {"2", "3"}
                        /\ is_digit(word[i + 3])
                        /\ boundary_before(word, i)
                        /\ boundary_after(word, i + 3)}}

\* CRADataValidator.extract_tax_year: the most recent year found
extract_tax_year(content) ==
  LET years == year_matches(content) IN
  IF years = {} THEN None
  ELSE CHOOSE y \in years : \A z \in years : year_value(z) <= year_value(y)

\* any(re.search(rf'\b{keyword}\b', combined_text) for keyword in bucket):
\* title and content are joined with a space, so a hit lies in one of them
bucket_hit(bucket, title, content) ==
  LET title_lower == text_lower(title)
      content_lower == text_lower(content)
  IN \E n \in DOMAIN tax_keywords[bucket] :
       \/ contains_word(title_lower, tax_keywords[bucket][n])
       \/ contains_word(content_lower, tax_keywords[bucket][n])

\* (variant: the business bucket is looked at before the forms bucket)
determine_page_type_business_first(title, content) ==
  IF bucket_hit("business", title, content) THEN "business"
  ELSE IF bucket_hit("forms", title, content) THEN "forms"
  ELSE IF bucket_hit("personal", title, content) THEN "personal"
  ELSE "general"

\* CRADataValidator.determine_page_type
determine_page_type(title, content) ==
  IF bucket_hit("forms", title, content) THEN "forms"
  ELSE IF bucket_hit("business", title, content) THEN "business"
  ELSE IF bucket_hit("personal", title, content) THEN "personal"
  ELSE "general"

\* (variant: only the content is searched for keywords)
is_relevant_content_only(title, content) ==
  \E n \in DOMAIN all_keywords : contains(text_lower(content), all_keywords[n])

\* CRADataValidator.is_relevant_content
is_relevant_content(title, content) ==
  LET title_lower == text_lower(title)
      content_lower == text_lower(content)
  IN \E n \in DOMAIN all_keywords :
       \/ contains(title_lower, all_keywords[n])
       \/ contains(content_lower, all_keywords[n])

\* validate.Length(min=1, max=500) of title and
\* validate.Length(min=50, max=10000) of content
title_min == 1
title_max == 500
content_min == 50
content_max == 10000

\* fields.Url(required=True): the URL has a scheme and a host (in the model
\* a URL without a host stands for every malformed URL)
well_formed(url) == netloc(url) # <<>>

\* (variant: whitespace is collapsed before the fields are validated)
schema_errors_after_clean(d) ==
  {f \in {"url", "title", "content", "extracted_at"} :
     \/ f = "url" /\ ~well_formed(d.url)
     \/ f = "title" /\ text_len(collapse(d.title)) \notin title_min..title_max
     \/ f = "content"
          /\ text_len(collapse(d.content)) \notin content_min..content_max
     \/ f = "extracted_at" /\ d.extracted_at = "missing"}

\* the fields whose validation fails in CRADataSchema.load; the Length
\* validators see the text as it was passed in
schema_errors(d) ==
  {f \in {"url", "title", "content", "extracted_at"} :
     \/ f = "url" /\ ~well_formed(d.url)
     \/ f = "title" /\ text_len(d.title) \notin title_min..title_max
     \/ f = "content" /\ text_len(d.content) \notin content_min..content_max
     \/ f = "extracted_at" /\ d.extracted_at = "missing"}

\* @post_load clean_data, run by load() after the fields were validated
\* (page_type has load_default='general')
clean_data(d) ==
  [title |-> collapse(d.title), content |-> collapse(d.content),
   page_type |-> "general"] @@ d

\* what a call raises
raise(message) == [raised |-> "ValidationError", message |-> message]
\* what a call returns
return(value) == [raised |-> "", value |-> value]

\* CRADataValidator.validate_data
validate_data(d) ==
  IF schema_errors(d) # {} THEN raise("schema")
  ELSE LET validated_data == clean_data(d) IN
       IF ~validate_url(validated_data.url)
         THEN raise("URL not from allowed domains")
       ELSE IF ~is_relevant_content(validated_data.title,
                                    validated_data.content)
         THEN raise("Content not relevant to tax information")
       ELSE return(
              [tax_year |-> extract_tax_year(validated_data.content),
               form_number |-> extract_form_number(validated_data.content),
               page_type |-> determine_page_type(validated_data.title,
                                                 validated_data.content)]
                @@ validated_data)

\* a call of validate_data on the dictionary
ValidateData ==
  /\ applied = "none"
  /\ page_data # <<>>
  /\ phase = "idle"
  /\ applied' = "validate_data"
  /\ returned' = validate_data(page_data)
  /\ UNCHANGED <<limiterVars, pc, crawlerVars, runVars, discoverVars,
                 chunkVars, page_data, stored_by>>

\* a call of extract_form_number on the content as it was passed in
ExtractFormNumber ==
  /\ applied = "none"
  /\ page_data # <<>>
  /\ phase = "idle"
  /\ applied' = "extract_form_number"
  /\ returned' = return(extract_form_number(page_data.content))
  /\ UNCHANGED <<limiterVars, pc, crawlerVars, runVars, discoverVars,
                 chunkVars, page_data, stored_by>>

\* a call of determine_page_type on the title and the content as they were
\* passed in
DeterminePageType ==
  /\ applied = "none"
  /\ page_data # <<>>
  /\ phase = "idle"
  /\ applied' = "determine_page_type"
  /\ returned' = return(determine_page_type(page_data.title,
                                            page_data.content))
  /\ UNCHANGED <<limiterVars, pc, crawlerVars, runVars, discoverVars,
                 chunkVars, page_data, stored_by>>

\* the words the contents are made of
Vocabulary ==
  << <<"T", "1">>,
    <<"t", "2", "a">>,
    <<"T", "1", "2", "3", "4">>,
    <<"R", "C", "1", "2">>,
    <<"n", "r", "5", ",">>,
    <<"f", "o", "r", "m", "s">>,
    <<"B", "u", "s", "i", "n", "e", "s", "s">>,
    <<"r", "r", "s", "p">>,
    <<"2", "0", "2", "4">>,
    <<"2", "0", "1", "9", "/", "2", "0", "3", "1">> >>

\* the sequences of at most n words
WordSeqs(n) == UNION {[1..k -> Range(Vocabulary)] : k \in 0..n}

\* the words separated by single spaces
spaced(ws) == [words |-> ws, gaps |-> [i \in 1..(Len(ws) + 1) |-> 1]]
single_spaced(ws) == collapse(spaced(ws))

\* the words followed by whitespace up to n characters
padded_to(ws, n) ==
  LET t == single_spaced(ws) IN
  [t EXCEPT !.gaps[Len(ws) + 1] = Max(n - text_len(t), 0)]

\* the words followed by a word of n letters
filled_with(ws, n) == single_spaced(Append(ws, [i \in 1..n |-> "x"]))

\* the contents: at most n words, made one character too short or just long
\* enough by trailing whitespace, or followed by a word of content_min
\* letters; and contents of at most one word made one character too long by
\* trailing whitespace
ContentInputs(n) ==
  {padded_to(ws, len) : ws \in WordSeqs(n),
                        len \in {content_min - 1, content_min}}
    \cup {filled_with(ws, content_min) : ws \in WordSeqs(n)}
    \cup {padded_to(ws, content_max + 1) : ws \in WordSeqs(1)}

\* the titles: "Tax Info", "Weather Report", "T1  Form " (with a run of two spaces
\* and a trailing space), the empty title, a title of one space and
\* "Tax" followed by whitespace up to title_max + 1 characters
tax_info == single_spaced(<< <<"T", "a", "x">>, <<"I", "n", "f", "o">> >>)
TitleInputs ==
  {tax_info,
   single_spaced(<< <<"W", "e", "a", "t", "h", "e", "r">>,
                    <<"R", "e", "p", "o", "r", "t">> >>),
   [words |-> << <<"T", "1">>, <<"F", "o", "r", "m">> >>, gaps |-> <<0, 2, 1>>],
   [words |-> <<>>, gaps |-> <<0>>],
   [words |-> <<>>, gaps |-> <<1>>],
   padded_to(<< <<"T", "a", "x">> >>, title_max + 1)}

\* the URL and the time of extraction: a URL of www.canada.ca, of
\* canada.ca.evil.io or without a host, and a dictionary of www.canada.ca
\* that lacks extracted_at
page_url(h) == [host |-> h, path |-> 1]
EnvelopeInputs ==
  {[url |-> page_url(h), extracted_at |-> "datetime"] : h \in {1, 4, 5}}
    \cup {[url |-> page_url(1), extracted_at |-> "missing"]}

\* the dictionaries with contents of at most n words: every title and
\* content with the URL of www.canada.ca and a time of extraction, and every
\* content under the title "Tax Info" with the other URLs or without
\* extracted_at
DataInputs(n) ==
  {[title |-> title, content |-> content, url |-> page_url(1),
    extracted_at |-> "datetime"] :
     title \in TitleInputs, content \in ContentInputs(n)}
    \cup {[title |-> tax_info, content |-> content] @@ envelope :
            envelope \in EnvelopeInputs, content \in ContentInputs(n)}

\* a validator with the default configuration is handed a dictionary
ValidateInit ==
  /\ CoreInit
  /\ DiscoverIdle
  /\ ChunkIdle
  /\ page_data \in DataInputs(MaxWords)
  /\ applied = "none"
  /\ returned = <<>>
  /\ stored_by = "none"

NextValidate == ValidateData \/ ExtractFormNumber \/ DeterminePageType

ValidateSpec == ValidateInit /\ [][NextValidate]_vars

\* ------------------------------------------------------- CRAVectorizer
\* a letter, a sentence-ending character ([.!?]) and a whitespace character
Alphabet == {"a", ".", " "}
is_space(c) == c = " "
is_sentence_end(c) == c \in {".", "!", "?"}

SetMin(S) == CHOOSE x \in S : \A y \in S : x <= y
SetMax(S) == CHOOSE x \in S : \A y \in S : y <= x

\* str[a:b] for 0 <= a <= b (positions counted from 0, b exclusive)
slice(str, a, b) ==
  LET last == IF b < Len(str) THEN b ELSE Len(str) IN
  IF a >= last THEN <<>> ELSE SubSeq(str, a + 1, last)

\* str.strip(): without the leading and trailing whitespace
strip(str) ==
  LET n == Len(str)
      first == CHOOSE i \in 1..(n + 1) :
                 /\ i = n + 1 \/ ~is_space(str[i])
                 /\ \A k \in 1..(i - 1) : is_space(str[k])
      dropped == CHOOSE j \in 0..n :
                   /\ j = n \/ ~is_space(str[n - j])
                   /\ \A k \in (n - j + 1)..n : is_space(str[k])
  IN IF first > n THEN <<>> ELSE SubSeq(str, first, n - dropped)

\* [m.end() for m in re.finditer(r'[.!?]\s+', window)]: a match starts at a
\* sentence-ending character followed by whitespace and takes the whole run
\* of whitespace after it
sentence_endings(window) ==
  {SetMax({e \in (i + 1)..Len(window) :
             \A k \in (i + 1)..e : is_space(window[k])}) :
     i \in {j \in 1..(Len(window) - 1) :
              is_sentence_end(window[j]) /\ is_space(window[j + 1])}}

\* (variant: the whole segment is searched for a sentence ending)
segment_end_whole_segment(str, start) ==
  LET end == start + chunk_size
      endings == sentence_endings(slice(str, start, end))
      refined == IF endings # {} THEN start + SetMax(endings) ELSE end
  IN IF end < Len(str)
       THEN IF refined - start < overlap_size THEN start + chunk_size
            ELSE refined
       ELSE end

\* the end of the segment that starts at `start` (lines 100-114)
segment_end(str, start) ==
  LET end == start + chunk_size
      search_start == Max(start + chunk_size - SentenceLookback, start)
      endings == sentence_endings(slice(str, search_start, end))
      refined == IF endings # {} THEN search_start + SetMax(endings) ELSE end
  IN IF end < Len(str)
       THEN IF refined - start < overlap_size THEN start + chunk_size
            ELSE refined
       ELSE end

\* chunk = text[start:end].strip()
chunk_of(str, start, end) == strip(slice(str, start, end))

\* (variant: the next segment starts overlap_size after the cut)
next_start_skips(end, n) == end + overlap_size

\* the start of the next segment (lines 125-129); n = len(chunks)
next_start(end, n) ==
  LET start == end - overlap_size IN
  IF n > 1 /\ start <= end - chunk_size + overlap_size
    THEN end - (overlap_size \div 2)
    ELSE start

\* (variant: the loop stops one chunk too late)
loop_goes_on_one_more(str, start, n) ==
  start < Len(str) /\ n <= max_chunks_per_page

\* `while start < len(text) and len(chunks) < self._max_chunks_per_page`
loop_goes_on(str, start, n) ==
  start < Len(str) /\ n < max_chunks_per_page

\* the while loop of _split_text_into_chunks from one iteration on
RECURSIVE split_loop(_, _, _)
split_loop(str, start, chunks_so_far) ==
  IF ~loop_goes_on(str, start, Len(chunks_so_far)) THEN chunks_so_far
  ELSE LET end == segment_end(str, start)
           chunk == chunk_of(str, start, end)
           appended == IF chunk # <<>> THEN Append(chunks_so_far, chunk)
                       ELSE chunks_so_far
       IN IF end >= Len(str) THEN appended
          ELSE split_loop(str, next_start(end, Len(appended)), appended)

\* (variant: a text as long as chunk_size goes through the loop)
fits_in_one_chunk_strictly(str) == Len(str) < chunk_size

\* `if len(text) <= self._chunk_size`
fits_in_one_chunk(str) == Len(str) <= chunk_size

\* _split_text_into_chunks
split_text_into_chunks(str) ==
  IF fits_in_one_chunk(str) THEN <<str>> ELSE split_loop(str, 0, <<>>)

\* a validated record with this content; a title is kept as its text and
\* its part indicator (<<>> when it has none)
validated_record(content) ==
  [url |-> "https://www.canada.ca/page", title |-> [text |-> "T", part |-> <<>>],
   content |-> content, page_type |-> "general", tax_year |-> "2023",
   form_number |-> "T1"]

\* f'{title} (Part {chunk_index + 1}/{total_chunks})'
part_title(title, chunk_index, total_chunks) ==
  [title EXCEPT !.part = @ \o <<chunk_index + 1, total_chunks>>]

\* (variant: the part indicator carries the chunk index as it is)
create_chunk_metadata_zero_based(base, chunk_text, chunk_index, total_chunks) ==
  LET chunk_data ==
        [chunk_index |-> chunk_index, total_chunks |-> total_chunks,
         chunk_text |-> chunk_text, is_chunked |-> total_chunks > 1] @@ base
  IN IF total_chunks > 1 /\ "title" \in DOMAIN chunk_data
       THEN [chunk_data EXCEPT
               !.title = part_title(@, chunk_index - 1, total_chunks)]
       ELSE chunk_data

\* _create_chunk_metadata: a copy of base_data updated with the chunk's
\* fields, its title marked when the record has several chunks
create_chunk_metadata(base, chunk_text, chunk_index, total_chunks) ==
  LET chunk_data ==
        [chunk_index |-> chunk_index, total_chunks |-> total_chunks,
         chunk_text |-> chunk_text, is_chunked |-> total_chunks > 1] @@ base
  IN IF total_chunks > 1 /\ "title" \in DOMAIN chunk_data
       THEN [chunk_data EXCEPT
               !.title = part_title(@, chunk_index, total_chunks)]
       ELSE chunk_data

\* create_combined_text(data, use_chunk_text=True): the labelled parts that
\* are joined with ' | '
create_combined_text(data) ==
  << <<"Title", data.title>>, <<"Type", data.page_type>>,
     <<"Tax Year", data.tax_year>>, <<"Form", data.form_number>> >>
  \o (IF data.chunk_text # <<>> THEN << <<"Content", data.chunk_text>> >>
      ELSE IF data.content # <<>> THEN << <<"Content", data.content>> >>
      ELSE <<>>)

\* vectorize_tax_data up to `await self.vectorize_batch(combined_texts)`:
\* the content is split and the chunk dictionaries are made
SplitContent ==
  /\ phase = "input"
  /\ LET chunks_made == split_text_into_chunks(base_data.content) IN
       /\ split_chunks' = chunks_made
       /\ chunk_data_list' =
            [i \in 1..Len(chunks_made) |->
               create_chunk_metadata(base_data, chunks_made[i], i - 1,
                                     Len(chunks_made))]
  /\ phase' = "embedding"
  /\ UNCHANGED <<limiterVars, pc, crawlerVars, runVars, discoverVars,
                 validateVars, text,
                 chunk_size, overlap_size, max_chunks_per_page, scanVars,
                 base_data,
                 vectors, records>>

\* vectorize_batch returns; zip(chunk_data_list, vectors, combined_texts,
\* strict=False) stops at the shorter list
EmbedReturns ==
  /\ phase = "embedding"
  /\ \E n \in {Len(chunk_data_list), Max(Len(chunk_data_list) - 1, 0)} :
       /\ vectors' = n
       /\ records' =
            [i \in 1..n |->
               [vector |-> <<"vector", i>>,
                combined_text |-> create_combined_text(chunk_data_list[i])]
                 @@ chunk_data_list[i]]
  /\ phase' = "vectorized"
  /\ UNCHANGED <<limiterVars, pc, crawlerVars, runVars, discoverVars,
                 validateVars, text,
                 chunk_size, overlap_size, max_chunks_per_page, scanVars,
                 base_data,
                 split_chunks, chunk_data_list>>

\* the texts of at most n characters
Texts(n) == UNION {[1..k -> Alphabet] : k \in 0..n}

\* a vectorizer with a small configuration is given a validated record
ChunkInit ==
  /\ CoreInit
  /\ DiscoverIdle
  /\ text \in Texts(MaxTextLen)
  /\ chunk_size \in 1..MaxChunkSize
  /\ overlap_size \in 0..(chunk_size - 1)
  /\ max_chunks_per_page \in 1..MaxChunks
  /\ base_data = validated_record(text)
  /\ split_chunks = <<>>
  /\ chunk_data_list = <<>>
  /\ vectors = 0
  /\ records = <<>>
  /\ phase = "input"
  /\ ScanIdle
  /\ ValidateIdle

NextChunk == SplitContent \/ EmbedReturns

ChunkSpec == ChunkInit /\ [][NextChunk]_vars

\* ------------------------------------------------------ fairness (asyncio)
\* The event loop resumes the coroutine that was handed the lock and ends
\* every sleep whose deadline is reached; at most one coroutine (the holder
\* of the lock) is in one of these positions.
HolderStep ==
  \E p \in Procs : LockGranted(p) \/ WakeWindow(p) \/ WakeDelay(p)

LiveSpec == Init /\ [][Next]_vars /\ WF_vars(HolderStep)

\* ------------------------------------------- one page through the handler
\* n spaces
spaces(n) == [i \in 1..n |-> " "]

\* the characters of a text from its k-th run of whitespace on
RECURSIVE chars_from(_, _)
chars_from(t, k) ==
  IF k > Len(t.words) THEN spaces(t.gaps[k])
  ELSE spaces(t.gaps[k]) \o t.words[k] \o chars_from(t, k + 1)

\* a text as the sequence of characters the vectorizer reads
as_chars(t) == chars_from(t, 1)

\* validated_data as vectorize_tax_data reads it: the content as characters,
\* the title with its (still missing) part indicator
as_base_data(validated_data) ==
  [validated_data EXCEPT !.title = [text |-> @, part |-> <<>>],
                         !.content = as_chars(@)]

\* n times the letter a, and a sentence of n characters
letters(n) == [i \in 1..n |-> "a"]
sentence(n) == Append(letters(n - 1), ".")

\* the lengths of the long contents
ContentLengths == {3000, 3200, 3400}

\* the contents of the pages: 150 letters; and, with each of the lengths, one
\* word of letters, a sentence followed by a word of letters (the sentence
\* ending before, inside or after the span in which the chunker looks for a
\* sentence boundary) and a word of letters followed by "tax"
PageContents(lengths) ==
  {single_spaced(<<letters(150)>>)}
    \cup UNION {
      {single_spaced(<<letters(n)>>),
       single_spaced(<<letters(n - 4), <<"t", "a", "x">> >>)}
        \cup {single_spaced(<<sentence(k), letters(n - k - 1)>>) :
                k \in {100, 2799, 2800, 2900, 2998, 2999, 3000, 3100}} :
      n \in lengths}

\* the dictionaries _extract_page_data returns for the pages
PageInputs(lengths) ==
  {[url |-> page_url(1), title |-> title, content |-> content,
    extracted_at |-> "datetime"] :
     title \in {tax_info,
                single_spaced(<< <<"W", "e", "a", "t", "h", "e", "r">>,
                                 <<"R", "e", "p", "o", "r", "t">> >>)},
     content \in PageContents(lengths)}

\* content.strip()
text_strip(t) == [t EXCEPT !.gaps[1] = 0, !.gaps[Len(t.words) + 1] = 0]

\* the position at which the i-th word of a text begins
word_start(t, i) ==
  SumSeq(SubSeq(t.gaps, 1, i)) + SumSeq([k \in 1..(i - 1) |-> Len(t.words[k])])

\* content[:n] of a content of more than n characters
first_chars(t, n) ==
  LET m == Cardinality({i \in DOMAIN t.words : word_start(t, i) < n})
      word_end(i) == word_start(t, i) + Len(t.words[i])
      last_end == IF m = 0 THEN 0
                  ELSE IF word_end(m) <= n THEN word_end(m) ELSE n
  IN [words |-> [i \in 1..m |->
                   IF word_end(i) <= n THEN t.words[i]
                   ELSE SubSeq(t.words[i], 1, n - word_start(t, i))],
      gaps |-> [i \in 1..(m + 1) |->
                  IF i <= m THEN t.gaps[i] ELSE n - last_end]]

\* content + '...'
with_dots(t) ==
  LET m == Len(t.words) IN
  IF m > 0 /\ t.gaps[m + 1] = 0
    THEN [t EXCEPT !.words[m] = @ \o <<".", ".", ".">>]
    ELSE [words |-> Append(t.words, <<".", ".", ".">>),
          gaps |-> Append(t.gaps, 0)]

\* `content = content[: self._config.max_text_length] + '...'`
truncated(content) == with_dots(first_chars(content, max_text_length))

\* _extract_page_data from `content = content.strip() if content else ''`
\* on: None for a page without a title or with too little content, else the
\* dictionary with the content cut when it is too long
extract_page_data(page) ==
  LET content == text_strip(page.content) IN
  IF \/ text_len(page.title) = 0
     \/ text_len(content) = 0
     \/ text_len(content) < min_text_length
    THEN None
    ELSE [url |-> page.url, title |-> text_strip(page.title),
          content |-> IF text_len(content) > max_text_length
                        THEN truncated(content) ELSE content,
          extracted_at |-> "datetime"]

\* contents around the two lengths: one word of lo - 1, lo, hi and hi + 1
\* letters, a word of lo letters between whitespace, and a word followed by
\* "tax" that reaches position hi in the whitespace between them
EdgeContents(lo, hi) ==
  {single_spaced(<<letters(n)>>) : n \in {lo - 1, lo, hi, hi + 1}}
    \cup {[words |-> <<letters(lo)>>, gaps |-> <<1, 2>>],
          single_spaced(<<letters(hi - 1), <<"t", "a", "x">> >>)}

\* the title and the content read from the pages: the contents of the pages
\* under two titles, the contents around the two lengths under "Tax Info",
\* and a page without a title
RawPages(lengths) ==
  {[url |-> page_url(1), title |-> title, content |-> content] :
     title \in {tax_info,
                single_spaced(<< <<"W", "e", "a", "t", "h", "e", "r">>,
                                 <<"R", "e", "p", "o", "r", "t">> >>)},
     content \in PageContents(lengths)}
    \cup {[url |-> page_url(1), title |-> tax_info, content |-> content] :
            content \in EdgeContents(min_text_length, max_text_length)}
    \cup {[url |-> page_url(1), title |-> [words |-> <<>>, gaps |-> <<0>>],
           content |-> single_spaced(<<letters(150)>>)]}

\* _handle_page after acquire() returned: the page is counted and
\* _extract_page_data returns a dictionary, or None when the page has too
\* little or reading it raised
ExtractPage ==
  /\ phase = "idle"
  /\ page_data = <<>>
  /\ \E page \in RawPages(ContentLengths), failed \in BOOLEAN :
       IF failed \/ extract_page_data(page) = None
         THEN /\ phase' = "no_data"
              /\ UNCHANGED page_data
         ELSE /\ page_data' = extract_page_data(page)
              /\ UNCHANGED phase
  /\ stats' = add(stats, on_crawled)
  /\ UNCHANGED <<limiterVars, pc, delta, calls, chunks, result, runVars,
                 discoverVars, text, chunk_size, overlap_size,
                 max_chunks_per_page, base_data, split_chunks,
                 chunk_data_list, vectors, records, scanVars, applied,
                 returned, stored_by>>

\* validate_data raises, or it returns and the record is counted and handed
\* to vectorize_tax_data
ValidatePage ==
  /\ phase = "idle"
  /\ page_data # <<>>
  /\ applied = "none"
  /\ applied' = "validate_data"
  /\ returned' = validate_data(page_data)
  /\ IF returned'.raised = "ValidationError"
       THEN /\ stats' = add(stats, on_validation_error)
            /\ phase' = "rejected"
            /\ UNCHANGED <<text, base_data>>
       ELSE /\ stats' = add(stats, on_validated)
            /\ base_data' = as_base_data(returned'.value)
            /\ text' = base_data'.content
            /\ phase' = "input"
  /\ UNCHANGED <<limiterVars, pc, delta, calls, chunks, result, runVars,
                 discoverVars, chunk_size, overlap_size,
                 max_chunks_per_page, scanVars,
                 split_chunks, chunk_data_list, vectors, records, page_data,
                 stored_by>>

\* vectorize_tax_data has returned: the handler calls store_batch or
\* store_data (vectorized_chunks[0] of an empty list raises), which stores
\* the chunks or raises, and the page is counted
StoreChunks ==
  /\ phase = "vectorized"
  /\ IF Len(records) = 0
       THEN /\ stats' = add(stats, on_processing_error)
            /\ phase' = "failed"
            /\ UNCHANGED stored_by
       ELSE /\ stored_by' = store_call(Len(records))
            /\ \E sto \in {"stored", "store_failed"} :
                 /\ phase' = sto
                 /\ stats' = add(stats, IF sto = "stored"
                                          THEN on_stored(Len(records))
                                          ELSE on_processing_error)
  /\ UNCHANGED <<limiterVars, pc, delta, calls, chunks, result, runVars,
                 discoverVars, text, chunk_size, overlap_size,
                 max_chunks_per_page, scanVars, base_data, split_chunks,
                 chunk_data_list, vectors, records, page_data, applied,
                 returned>>

NextPage ==
  \/ ExtractPage
  \/ ValidatePage
  \/ SplitContent
  \/ EmbedReturns
  \/ StoreChunks

PageSpec == Init /\ [][NextPage]_vars

\* ------------------------------- _split_text_into_chunks, step by step
\* the long contents of the pages, as the characters the chunker reads
LongTexts(lengths) == {as_chars(c) : c \in PageContents(lengths)}

\* short texts with an exclamation mark, a question mark or a comma
MarkTexts == {<<"a", m, " ", "a", "a">> : m \in {"!", "?", ","}}

\* (variant: the overlap may be as large as the chunk size)
NewVectorizer_any_overlap ==
  /\ phase = "idle"
  /\ text' \in Texts(MaxTextLen)
  /\ chunk_size' \in 1..MaxChunkSize
  /\ overlap_size' \in 0..chunk_size'
  /\ max_chunks_per_page' \in 1..MaxChunks
  /\ base_data' = validated_record(text')
  /\ phase' = "input"
  /\ UNCHANGED <<limiterVars, pc, crawlerVars, runVars, discoverVars,
                 validateVars, split_chunks, chunk_data_list, vectors,
                 records, scanVars>>

\* a vectorizer is made with a small configuration and given a short text,
\* or with the default configuration and given a long content
NewVectorizer ==
  /\ phase = "idle"
  /\ \/ /\ text' \in Texts(MaxTextLen) \cup MarkTexts
        /\ chunk_size' \in 1..MaxChunkSize
        /\ overlap_size' \in 0..(chunk_size' - 1)
        /\ max_chunks_per_page' \in 1..MaxChunks
     \/ /\ text' \in LongTexts({3200})
        /\ chunk_size' = 3000
        /\ overlap_size' = 500
        /\ max_chunks_per_page' = 10
  /\ base_data' = validated_record(text')
  /\ phase' = "input"
  /\ UNCHANGED <<limiterVars, pc, crawlerVars, runVars, discoverVars,
                 validateVars, split_chunks, chunk_data_list, vectors,
                 records, scanVars>>

\* _split_text_into_chunks is entered: a text that fits in one chunk is
\* returned at once, otherwise the scan starts at 0 with no chunks
SplitBegin ==
  /\ phase = "input"
  /\ scan = "idle"
  /\ IF fits_in_one_chunk(text)
       THEN /\ scan' = "returned"
            /\ scan_chunks' = <<text>>
            /\ UNCHANGED scan_start
       ELSE /\ scan' = "loop"
            /\ scan_chunks' = <<>>
            /\ scan_start' = 0
  /\ UNCHANGED <<limiterVars, pc, crawlerVars, runVars, discoverVars,
                 validateVars, text, chunk_size, overlap_size,
                 max_chunks_per_page, base_data, split_chunks,
                 chunk_data_list, vectors, records, phase, segment>>

\* the loop condition is evaluated and, when it holds, the body runs once:
\* a segment is cut, its stripped text is kept when it is not empty, and the
\* loop is left at the end of the text or goes on from the next start
SplitIterate ==
  /\ scan = "loop"
  /\ IF ~loop_goes_on(text, scan_start, Len(scan_chunks))
       THEN /\ scan' = "returned"
            /\ UNCHANGED <<scan_start, scan_chunks, segment>>
       ELSE LET end == segment_end(text, scan_start)
                chunk == chunk_of(text, scan_start, end)
                appended == IF chunk # <<>> THEN Append(scan_chunks, chunk)
                            ELSE scan_chunks
            IN /\ segment' = [start |-> scan_start, end |-> end,
                               chunk |-> chunk]
               /\ scan_chunks' = appended
               /\ IF end >= Len(text)
                    THEN /\ scan' = "returned"
                         /\ UNCHANGED scan_start
                    ELSE /\ scan' = "loop"
                         /\ scan_start' = next_start(end, Len(appended))
  /\ UNCHANGED <<limiterVars, pc, crawlerVars, runVars, discoverVars,
                 validateVars, text, chunk_size, overlap_size,
                 max_chunks_per_page, base_data, split_chunks,
                 chunk_data_list, vectors, records, phase>>

NextScan == NewVectorizer \/ SplitBegin \/ SplitIterate

ScanSpec == Init /\ [][NextScan]_vars

\* ------------------------------------------------------------------ claims
\* the entries of the history whose return time lies in (t - h, t]
ReturnedWithin(t, h) == {i \in DOMAIN log : log[i].at > t - h /\ log[i].at <= t}
\* the entries of the history whose recorded timestamp lies in (t - h, t]
RecordedWithin(t, h) ==
  {i \in DOMAIN log : log[i].stamp > t - h /\ log[i].stamp <= t}
RecordsOf(p) == {i \in DOMAIN log : log[i].caller = p}
InSection(p) == pc[p] \in {"sleep_window", "sleep_delay"}
InAcquire(p) == pc[p] \in {"lockwait", "granted", "sleep_window", "sleep_delay"}

\* C1: in every rolling interval (t-60s, t] at most maxPerMinute acquire()
\* calls returned to their caller (it suffices to look at the intervals that
\* end at a return).
C1_ReleasedPerMinute ==
  \A i \in DOMAIN log :
    Cardinality(ReturnedWithin(log[i].at, MinuteHorizon)) <= max_per_minute

\* C2: two consecutive returns of acquire() are at least minDelay apart.
C2_MinDelayBetweenReturns ==
  \A i \in DOMAIN log :
    i > 1 => log[i].at - log[i - 1].at >= request_delay

\* C3: the requests recorded within any rolling 3600-second interval never
\* exceed maxPerHour, and within any rolling 86400-second interval never
\* exceed maxPerDay.
C3_RecordedPerHourAndDay ==
  \A i \in DOMAIN log :
    /\ Cardinality(RecordedWithin(log[i].stamp, HourHorizon)) <= max_per_hour
    /\ Cardinality(RecordedWithin(log[i].stamp, DayHorizon)) <= max_per_day

\* C4: at most one acquire() call at a time is inside the section that
\* prunes, checks, sleeps and records: the caller inside it holds the lock,
\* and while it stays inside no step of another acquire() caller samples the
\* clock or changes the windows or lastRequestTime.
C4_Exclusive ==
  /\ \A p, q \in Procs : InSection(p) /\ InSection(q) => p = q
  /\ \A p \in Procs : InSection(p) => lock = {p}
C4_NoForeignAccess ==
  \A p, q \in Procs :
    (p # q /\ InSection(p) /\ pc'[p] = pc[p] /\ pc'[q] # pc[q])
      => /\ requests' = requests
         /\ last_request_time' = last_request_time
         /\ current_time'[q] = current_time[q]
C4_MutualExclusion == []C4_Exclusive /\ [][C4_NoForeignAccess]_vars
\* a second caller is queued while the first sleeps inside the section
C4_Witness ==
  \E p, q \in Procs : InSection(p) /\ pc[q] = "lockwait"

\* C5: every acquire() call that is not cancelled eventually returns, also
\* when it is queued behind other callers, and when it has returned exactly
\* one request has been recorded for it.
C5_AcquireReturns ==
  /\ <>[](\A p \in Procs : ~InAcquire(p))
  /\ [](\A p \in Procs : pc[p] = "returned" => Cardinality(RecordsOf(p)) = 1)
\* every caller has returned, one of them after having been granted the lock
\* later than the request it recorded before it
C5_Witness ==
  /\ \A p \in Procs : pc[p] = "returned"
  /\ \E i \in DOMAIN log : log[i].at > log[i].stamp

\* C6: a cancelled sleep ends at once (the clock does not move), appends no
\* timestamp, leaves lastRequestTime unchanged and releases the exclusive
\* section: the first queued caller, if any, is granted the lock.
C6_Cancelled ==
  \A p \in Procs :
    (InSection(p) /\ pc'[p] = "cancelled")
      => /\ now' = now
         /\ requests' = requests
         /\ log' = log
         /\ last_request_time' = last_request_time
         /\ IF waiters = <<>>
              THEN lock' = {}
              ELSE /\ lock' = {Head(waiters)}
                   /\ pc'[Head(waiters)] = "granted"
C6_CancelAborts == [][C6_Cancelled]_vars
\* a caller was cancelled in its sleep and a queued caller now has the lock
C6_Witness ==
  \E p, q \in Procs :
    /\ pc[p] = "cancelled" /\ RecordsOf(p) = {}
    /\ pc[q] = "granted" /\ lock = {q}

ProcessingFailures == {"validate_failed", "embed_failed", "store_failed"}

\* the failure of page p was caught and counted once, nothing was stored
CaughtAndCounted(p) ==
  /\ pc[p] = "finished"
  /\ delta[p]["processing_errors"] = 1
  /\ delta[p]["pages_stored"] = 0
  /\ delta[p]["chunks_created"] = 0

\* C7 (as claimed): any failure raised after acquire() during extraction,
\* validation (other than a ValidationError), embedding or storing is caught
\* in the handler, which returns normally with processingErrors incremented
\* by exactly one and pagesStored and chunksCreated unchanged for the page.
C7_AnyFailureCounted ==
  \A p \in Pages :
    result[p] \in ProcessingFailures \cup {"extract_error"}
      => CaughtAndCounted(p)

\* C7 (amended): any failure raised after acquire() during validation (other
\* than a ValidationError), embedding or storing is caught in the handler,
\* which returns normally with processingErrors incremented by exactly one
\* and pagesStored and chunksCreated unchanged for the page.
C7_ProcessingFailureCounted ==
  \A p \in Pages : result[p] \in ProcessingFailures => CaughtAndCounted(p)
\* a page failed during validation, embedding or storing, and a page whose
\* handler started after it was stored
C7_Witness ==
  \E p, q \in Pages :
    /\ p < q
    /\ result[p] \in ProcessingFailures
    /\ result[q] = "stored" /\ pc[q] = "finished"

\* C8: when validation rejects a page, validationErrors is incremented by
\* exactly one, processingErrors, pagesProcessed, pagesStored and
\* chunksCreated are unchanged, and the page is not chunked, embedded or
\* stored.
C8_ValidationRejected ==
  \A p \in Pages :
    result[p] = "invalid"
      => /\ pc[p] = "finished"
         /\ delta[p]["validation_errors"] = 1
         /\ delta[p]["processing_errors"] = 0
         /\ delta[p]["pages_processed"] = 0
         /\ delta[p]["pages_stored"] = 0
         /\ delta[p]["chunks_created"] = 0
         /\ calls[p] = <<"extract", "validate">>
C8_Witness ==
  \E p \in Pages : result[p] = "invalid" /\ stats["validation_errors"] > 0

\* C9: when extraction yields no usable data (it returns nothing or fails
\* internally) the page increments pagesCrawled only, and no validate,
\* embed or store step runs for it.
C9_NoDataSkipped ==
  \A p \in Pages :
    result[p] \in {"no_data", "extract_error"}
      => /\ pc[p] = "finished"
         /\ delta[p] = [ZeroStats EXCEPT !["pages_crawled"] = 1]
         /\ calls[p] = <<"extract">>
C9_Witness ==
  \E p, q \in Pages : result[p] = "no_data" /\ result[q] = "extract_error"

\* C10: a page that validates and is embedded and stored with n chunks
\* increments pagesProcessed by 1, pagesStored and chunksCreated by n and no
\* error counter; pagesStored = chunksCreated in every reachable state.
C10_StoredCounted ==
  /\ \A p \in Pages :
       result[p] = "stored"
         => /\ chunks[p] >= 1
            /\ delta[p] = [ZeroStats EXCEPT !["pages_crawled"] = 1,
                                            !["pages_processed"] = 1,
                                            !["pages_stored"] = chunks[p],
                                            !["chunks_created"] = chunks[p]]
  /\ stats["pages_stored"] = stats["chunks_created"]
C10_Witness ==
  \E p, q \in Pages :
    /\ result[p] = "stored" /\ chunks[p] > 1
    /\ result[q] = "stored" /\ chunks[q] = 1
    /\ stats["pages_stored"] = chunks[p] + chunks[q]

StoreCalls(p) ==
  {i \in DOMAIN calls[p] : calls[p][i] \in {"store_batch", "store_data"}}

\* C11: for each stored page exactly one store call is made: the batch path
\* when the page produced more than one chunk, the single-store path when it
\* produced exactly one.
C11_OneStoreCall ==
  \A p \in Pages :
    result[p] = "stored"
      => /\ Cardinality(StoreCalls(p)) = 1
         /\ \A i \in StoreCalls(p) :
              /\ chunks[p] > 1 => calls[p][i] = "store_batch"
              /\ chunks[p] = 1 => calls[p][i] = "store_data"
C11_Witness ==
  \E p, q \in Pages :
    /\ result[p] = "stored" /\ chunks[p] > 1
    /\ result[q] = "stored" /\ chunks[q] = 1

\* C12: no per-page step (extraction, validation, embedding, storing, the
\* pagesCrawled increment) happens for a page before acquire() has returned
\* for it.
C12_AcquireFirst ==
  \A p \in Pages :
    (calls[p] # <<>> \/ delta[p] # ZeroStats)
      => /\ RecordsOf(p) # {}
         /\ pc[p] # "idle"
         /\ ~InAcquire(p)
\* one page is being extracted after its acquire() returned while another
\* page, still waiting inside acquire(), has not started any step
C12_Witness ==
  \E p, q \in Pages :
    /\ pc[p] = "extracting" /\ RecordsOf(p) # {}
    /\ InAcquire(q) /\ calls[q] = <<>> /\ delta[q] = ZeroStats

\* the increments one page-handler flow makes when it runs alone, by the way
\* the flow ended
Alone(p) ==
  LET r == result[p] IN
  IF r \in {"no_data", "extract_error"} THEN inc("pages_crawled", 1)
  ELSE IF r = "invalid"
    THEN add(inc("pages_crawled", 1), inc("validation_errors", 1))
  ELSE IF r = "validate_failed"
    THEN add(inc("pages_crawled", 1), inc("processing_errors", 1))
  ELSE IF r \in {"embed_failed", "store_failed"}
    THEN add(add(inc("pages_crawled", 1), inc("pages_processed", 1)),
             inc("processing_errors", 1))
  ELSE IF r = "stored"
    THEN add(add(inc("pages_crawled", 1), inc("pages_processed", 1)),
             add(inc("pages_stored", chunks[p]),
                 inc("chunks_created", chunks[p])))
  ELSE ZeroStats

RECURSIVE AloneSum(_)
AloneSum(n) == IF n = 0 THEN ZeroStats ELSE add(AloneSum(n - 1), Alone(n))

AllFinished == \A p \in Pages : pc[p] = "finished"

\* C15: page-handler flows interleave at their suspension points, and no
\* counter increment is lost: once all flows have finished, each counter
\* equals the sum of the increments each flow makes when run alone.
C15_NoLostIncrement ==
  AllFinished => stats = AloneSum(MaxPages)
\* all flows finished, two of them stored their chunks and one failed
C15_Witness ==
  /\ AllFinished
  /\ \E p, q \in Pages : p # q /\ result[p] = "stored" /\ result[q] = "stored"
  /\ \E p \in Pages : result[p] \in {"embed_failed", "store_failed"}

Counters == DOMAIN ZeroStats

\* C13: once initialization has succeeded, every completed crawl() returns
\* a statistics object with the six counters; no failure of a collaborator
\* during or after page processing (the store's collection-info query
\* included) makes crawl() raise.
C13_CrawlAlwaysReturns ==
  /\ run # "raised"
  /\ run = "returned"
       => /\ final_stats # <<>>
          /\ Counters \subseteq DOMAIN final_stats[1]

\* the pages handled during the current crawl() invocation
RECURSIVE RunSum(_)
RunSum(n) ==
  IF n = 0 THEN ZeroStats
  ELSE IF n \in earlier THEN RunSum(n - 1)
  ELSE add(RunSum(n - 1), Alone(n))

\* C14: crawl() resets the six counters before the run starts, so the
\* statistics a crawl() returns count only the pages handled during that
\* invocation, not those of an earlier crawl() on the same object.
C14_CountsOfThisRun ==
  run = "returned"
    => \A f \in Counters : final_stats[1][f] = RunSum(MaxPages)[f]
\* the second crawl() returned; pages were handled (and counted) in the
\* first run, and a page was stored in the second
C14_Witness ==
  /\ run = "returned" /\ runs = 2
  /\ \E p \in earlier : pc[p] = "finished"
  /\ \E p \in Pages \ earlier : result[p] = "stored"

\* C16: every URL that link discovery queues was accepted by the validator's
\* URL check (its host ends with an allowed-domain suffix), and at most 100
\* URLs are queued per page.
C16_QueuedValidatedAndCapped ==
  /\ queued \subseteq absolute_urls(links)
  /\ \A url \in queued :
       \E allowed \in allowed_domains :
         endswith(lower(netloc(url)), allowed)
  /\ Cardinality(queued) <= 100
\* more than 100 links passed the check, some links point to other hosts,
\* and 100 were queued
C16_Witness ==
  /\ discovery = "queued"
  /\ Cardinality(discovered_links(links)) > 100
  /\ links[3] = 1 /\ links[4] = 1
  /\ Cardinality(queued) = 100

\* the split has been made
SplitDone == phase \in {"embedding", "vectorized"}

\* whitespace-normalized text (' '.join(text.split())): no whitespace at
\* either end and no two whitespace characters in a row
Normalized(str) ==
  /\ str = strip(str)
  /\ \A i \in 1..(Len(str) - 1) : ~(is_space(str[i]) /\ is_space(str[i + 1]))

\* C17 (as stated): for every text longer than chunkSize, split returns more
\* than one chunk and at most maxChunks chunks.
C17_LongTextSeveralChunks ==
  SplitDone /\ Len(text) > chunk_size
    => Len(split_chunks) > 1 /\ Len(split_chunks) <= max_chunks_per_page
\* C17 (amended): for every text longer than chunkSize, split returns at
\* most maxChunks chunks, and more than one chunk when maxChunks >= 2 and the
\* text is whitespace-normalized.
C17_LongTextBounded ==
  SplitDone /\ Len(text) > chunk_size
    => /\ Len(split_chunks) <= max_chunks_per_page
       /\ (max_chunks_per_page >= 2 /\ Normalized(text))
            => Len(split_chunks) > 1
\* a normalized text too long for maxChunks chunks: the cap is reached and
\* the rest of the text is dropped
C17_Witness ==
  /\ SplitDone /\ Normalized(text)
  /\ Len(text) = MaxTextLen /\ chunk_size = 2 /\ overlap_size = 1
  /\ max_chunks_per_page = 2 /\ Len(split_chunks) = 2

\* C18: for every text with len(text) <= chunkSize (the empty text and
\* len = chunkSize included), split returns exactly one chunk, equal to the
\* input.
C18_ShortTextOneChunk ==
  SplitDone /\ Len(text) <= chunk_size => split_chunks = <<text>>
\* a text of exactly chunk_size characters with whitespace at both ends
C18_Witness ==
  /\ SplitDone /\ Len(text) = chunk_size /\ Len(text) >= 2
  /\ is_space(text[1]) /\ is_space(text[Len(text)])
  /\ split_chunks = <<text>>

\* C19: every chunk returned by split is non-empty and has length at most
\* chunkSize, and every chunk except the last has length at least
\* overlapSize.
C19_ChunkLengths ==
  SplitDone
    => \A i \in 1..Len(split_chunks) :
         /\ split_chunks[i] # <<>>
         /\ Len(split_chunks[i]) <= chunk_size
         /\ i < Len(split_chunks) => Len(split_chunks[i]) >= overlap_size

\* C20: materializing a validated record with n chunks (the embedder
\* returning one vector per input) yields n records in order with
\* chunkIndex 0..n-1 (below totalChunks), totalChunks = n and
\* isChunked = (n > 1); the title carries "(Part chunkIndex+1/n)" exactly
\* when n > 1; every other base field is preserved on each chunk record and
\* the base record is not modified.
C20_ChunkRecords ==
  LET n == Len(split_chunks)
      base == validated_record(text)
  IN phase = "vectorized" /\ vectors = n
       => /\ Len(records) = n
          /\ base_data = base
          /\ \A i \in 1..n :
               /\ records[i].chunk_index = i - 1
               /\ records[i].chunk_index < records[i].total_chunks
               /\ records[i].total_chunks = n
               /\ records[i].is_chunked = (n > 1)
               /\ records[i].chunk_text = split_chunks[i]
               /\ records[i].title =
                    [text |-> base.title.text,
                     part |-> IF n > 1 THEN <<i, n>> ELSE <<>>]
               /\ \A f \in DOMAIN base \ {"title"} : records[i][f] = base[f]
\* a record with two chunks has been materialized; the second is Part 2/2
C20_Witness ==
  /\ phase = "vectorized" /\ vectors = 2 /\ Len(records) = 2
  /\ records[2].title.part = <<2, 2>>
  /\ records[1].chunk_text # records[2].chunk_text

Ceilings == [max_per_minute |-> max_per_minute, max_per_hour |-> max_per_hour,
             max_per_day |-> max_per_day]

\* C27: each window count reported by getStats() is at most the number of
\* acquire() calls that completed within that window's horizon ending at the
\* time of the getStats() call.
C27_StatsStep ==
  GetStats
    => /\ last_stats'.requests_last_minute
            <= Cardinality(ReturnedWithin(now', MinuteHorizon))
       /\ last_stats'.requests_last_hour
            <= Cardinality(ReturnedWithin(now', HourHorizon))
       /\ last_stats'.requests_last_day
            <= Cardinality(ReturnedWithin(now', DayHorizon))
C27_StatsWithinCompleted == [][C27_StatsStep]_vars
\* getStats() was called after two calls completed, of which one is older
\* than a minute and has been pruned from the minute window
C27_Witness ==
  /\ Len(log) = 2
  /\ last_stats.requests_last_hour = 2
  /\ last_stats.requests_last_minute = 1
  /\ Len(requests["minute"]) = 1

\* C28: each completed acquire() adds one entry to each window: after k
\* acquire() calls that all completed within the last 60 seconds, with k not
\* above any ceiling, getStats() reports k for the minute, hour and day
\* windows together with the three configured ceilings.
C28_StatsStep ==
  LET k == Len(log) IN
  (/\ GetStats
   /\ ReturnedWithin(now, MinuteHorizon) = DOMAIN log
   /\ k <= max_per_minute /\ k <= max_per_hour /\ k <= max_per_day)
    => last_stats' = [requests_last_minute |-> k, requests_last_hour |-> k,
                      requests_last_day |-> k,
                      max_per_minute |-> Ceilings.max_per_minute,
                      max_per_hour |-> Ceilings.max_per_hour,
                      max_per_day |-> Ceilings.max_per_day]
C28_StatsCountCompleted == [][C28_StatsStep]_vars
\* getStats() reported the single call that completed so far, less than a
\* minute ago, in all three windows
C28_Witness ==
  /\ Len(log) = 1 /\ log[1].at > now - MinuteHorizon
  /\ last_stats.requests_last_minute = 1
  /\ last_stats.requests_last_hour = 1
  /\ last_stats.requests_last_day = 1

\* the ceiling of a window
Limit(w) ==
  CASE w = "minute" -> max_per_minute
    [] w = "hour" -> max_per_hour
    [] w = "day" -> max_per_day

\* C29: after sleeping for a window at capacity acquire() retries from the
\* pruning step, so a request is recorded only in a pass in which, after
\* pruning at the time of the pass, none of the three windows is at capacity.
C29_RecordStep ==
  log' # log
    => \A w \in Windows :
         Len(cleanup_old_requests(requests, now')[w]) < Limit(w)
C29_RecordedBelowCapacity == [][C29_RecordStep]_vars

\* C30: the timestamp acquire() appends to the windows is sampled after all
\* sleeping of the call: it is not earlier than the time the call's last
\* sleep ended (the time the call recorded and returned).
C30_FreshTimestamp ==
  \A i \in DOMAIN log : log[i].stamp >= log[i].at

\* the text has a keyword as a substring, letter case aside
HasKeyword(t) ==
  \E n \in DOMAIN all_keywords, k \in DOMAIN t.words :
    \E i \in 1..Len(t.words[k]) :
      /\ i + Len(all_keywords[n]) - 1 <= Len(t.words[k])
      /\ \A j \in 1..Len(all_keywords[n]) :
           lower_char(t.words[k][i + j - 1]) = all_keywords[n][j]

\* the host of the URL ends with an allowed domain, letter case aside
HostAllowed(url) ==
  \E dom \in allowed_domains :
    LET host == Hosts[url.host] IN
    /\ Len(dom) <= Len(host)
    /\ \A j \in 1..Len(dom) :
         lower_char(host[Len(host) - Len(dom) + j]) = dom[j]

\* (a), (b), (c) of C22 for the dictionary as it was passed in
OutOfBounds(d) ==
  \/ text_len(d.title) < 1 \/ text_len(d.title) > 500
  \/ text_len(d.content) < 50 \/ text_len(d.content) > 10000
  \/ Hosts[d.url.host] = <<>>
Unrelated(d) == ~HasKeyword(d.title) /\ ~HasKeyword(d.content)
Enriched(r) == {"tax_year", "form_number"} \subseteq DOMAIN r

\* C22: validate_data raises ValidationError and returns no record whenever
\* the title, the content or the URL it is given is out of its structural
\* bound (title 1-500 characters, content 50-10000 characters, URL well
\* formed), the host of the URL does not end with an allowed domain, or
\* neither title nor content has a keyword as a substring; an enriched record
\* (tax_year, form_number, page_type) exists only when all three checks passed.
C22_RejectsAndEnrichesLast ==
  applied = "validate_data" =>
    LET failed == \/ OutOfBounds(page_data)
                  \/ ~HostAllowed(page_data.url)
                  \/ Unrelated(page_data)
    IN /\ failed => /\ returned.raised = "ValidationError"
                    /\ "value" \notin DOMAIN returned
       /\ returned.raised = "" =>
            /\ ~failed
            /\ Enriched(returned.value)
            /\ returned.value.page_type
                 \in {"forms", "business", "personal", "general"}

\* a dictionary that fails only the relevance check was rejected
C22_Witness ==
  /\ applied = "validate_data"
  /\ ~OutOfBounds(page_data)
  /\ HostAllowed(page_data.url)
  /\ page_data.extracted_at = "datetime"
  /\ Unrelated(page_data)
  /\ returned.raised = "ValidationError"

\* C23: every record returned by validate_data has, in its final
\* whitespace-normalized text, a content of 50 to 10000 characters and a title
\* of 1 to 500 characters.
C23_ReturnedWithinBounds ==
  (applied = "validate_data" /\ returned.raised = "") =>
    /\ text_len(returned.value.content) >= 50
    /\ text_len(returned.value.content) <= 10000
    /\ text_len(returned.value.title) >= 1
    /\ text_len(returned.value.title) <= 500

\* the buckets of C25 in their priority, and a whole-word hit of a bucket
Priority == <<"forms", "business", "personal">>
WholeWordHit(b, d) ==
  \E t \in {d.title, d.content} :
    \E k \in DOMAIN t.words :
      LET word == lower(t.words[k]) IN
      \E n \in DOMAIN tax_keywords[b] :
        LET kw == tax_keywords[b][n] IN
        \E i \in 1..(Len(word) - Len(kw) + 1) :
          /\ word[i] = kw[1]
          /\ SubSeq(word, i, i + Len(kw) - 1) = kw
          /\ (i > 1 => ~is_word_char(word[i - 1]))
          /\ (i + Len(kw) <= Len(word) => ~is_word_char(word[i + Len(kw)]))

\* C25: determine_page_type returns, for every title and content, exactly one
\* of forms, business, personal and general: the first bucket in the priority
\* forms, business, personal that has a whole-word keyword hit in the title or
\* the content, and general exactly when none of the three has one.
C25_FirstBucketWithHit ==
  applied = "determine_page_type" =>
    /\ returned.raised = ""
    /\ returned.value \in {"forms", "business", "personal", "general"}
    /\ LET hit == {n \in DOMAIN Priority :
                     WholeWordHit(Priority[n], page_data)}
       IN /\ \A n \in DOMAIN Priority :
               returned.value = Priority[n] <=>
                 (n \in hit /\ \A m \in 1..(n - 1) : m \notin hit)
          /\ returned.value = "general" <=> hit = {}

\* a content with a business keyword before a forms keyword was classified
\* as forms
C25_Witness ==
  /\ applied = "determine_page_type"
  /\ page_data.content.words = << <<"B", "u", "s", "i", "n", "e", "s", "s">>,
                                 <<"T", "1">> >>
  /\ ~WholeWordHit("forms", [page_data EXCEPT !.content.words = <<>>])
  /\ returned.value = "forms"

\* the upper-cased matches of the patterns of C26 in the content, with the
\* place (word, offset) where each starts
UpperWord(word) == [i \in DOMAIN word |-> upper_char(word[i])]
IsCode(p, str) ==
  LET n == Len(str)
      t_code == n >= 2 /\ str[1] = "T" /\ str[2] \in {"1", "2", "3", "4", "5"}
      digits_from(i) == n >= i /\ \A j \in i..n : is_digit(str[j])
  IN \/ p = 1 /\ t_code /\ (n = 2 \/ (n = 3 /\ is_upper(str[3])))
     \/ p = 2 /\ t_code /\ n = 5 /\ digits_from(3)
     \/ p = 3 /\ n >= 3 /\ str[1] = "R" /\ str[2] = "C" /\ digits_from(3)
     \/ p = 4 /\ n >= 3 /\ str[1] = "N" /\ str[2] = "R" /\ digits_from(3)
Starts(word) ==
  {i \in 1..Len(word) : upper_char(word[i]) \in {"T", "R", "N"}}
CodesOf(p, t) ==
  {c \in UNION {UNION {{[word |-> k, from |-> i,
                         code |-> UpperWord(SubSeq(t.words[k], i, j))] :
                          j \in i..Len(t.words[k])} :
                         i \in Starts(t.words[k])} :
                  k \in DOMAIN t.words} :
     LET word == t.words[c.word]
         to == c.from + Len(c.code) - 1
     IN /\ Len(c.code) > 0
        /\ IsCode(p, c.code)
        /\ (c.from > 1 => ~is_word_char(word[c.from - 1]))
        /\ (to < Len(word) => ~is_word_char(word[to + 1]))}

\* C26: extract_form_number returns, upper-cased, the first match in the
\* content of the first of the patterns T[1-5][A-Z]?, T[1-5]ddd, RCd+, NRd+
\* (letter case aside, between word boundaries) that matches anywhere, also
\* when a later pattern matches earlier in the content, and none exactly when
\* no pattern matches.
C26_FirstPatternFirstMatch ==
  applied = "extract_form_number" =>
    LET matching == {p \in 1..4 : CodesOf(p, page_data.content) # {}} IN
    /\ returned.raised = ""
    /\ returned.value = None <=> matching = {}
    /\ matching # {} =>
         \E p \in matching :
           /\ \A q \in matching : p <= q
           /\ LET codes == CodesOf(p, page_data.content) IN
              \E c \in codes :
                /\ returned.value = c.code
                /\ \A e \in codes :
                     \/ c.word < e.word
                     \/ (c.word = e.word /\ c.from <= e.from)

\* the content "RC12 t2a": the match of the first pattern was returned
\* although the third pattern matches before it
C26_Witness ==
  /\ applied = "extract_form_number"
  /\ page_data.content.words = << <<"R", "C", "1", "2">>, <<"t", "2", "a">> >>
  /\ returned.value = <<"T", "2", "A">>


\* the record of C24: 150 times the letter a under a title, and the message
\* of the relevance check
Letters150 == [words |-> <<letters(150)>>, gaps |-> <<0, 0>>]
Validated(title) ==
  /\ page_data # <<>>
  /\ page_data.title = title
  /\ page_data.content = Letters150
  /\ applied = "validate_data"
NotRelevant ==
  /\ returned.raised = "ValidationError"
  /\ returned.message = "Content not relevant to tax information"

\* C24 as stated: the record with 150 letters a and the title "Tax Info" fails
\* validation with the relevance error, and validation_errors, not
\* processing_errors, is incremented for the page.
C24_TaxInfoRejected ==
  Validated(tax_info) =>
    /\ NotRelevant
    /\ stats.validation_errors = 1
    /\ stats.processing_errors = 0

\* C24: the record with 150 letters a and the title "Tax Info" passes the
\* relevance check (the title has the keyword "tax", letter case aside) and
\* is counted under pages_processed; the same content under a title without a
\* keyword fails validation with the relevance error, and validation_errors,
\* not processing_errors, is incremented for the page.
C24_RelevanceByTitle ==
  /\ Validated(tax_info) =>
       /\ returned.raised = ""
       /\ stats.validation_errors = 0
       /\ stats.pages_processed = 1
  /\ \A d \in PageInputs({}) :
       (~HasKeyword(d.title) /\ Validated(d.title)) =>
         /\ NotRelevant
         /\ stats.validation_errors = 1
         /\ stats.processing_errors = 0
         /\ stats.pages_processed = 0

\* the record with 150 letters a under "Weather Report" was rejected
C24_Witness ==
  /\ page_data # <<>>
  /\ ~HasKeyword(page_data.title)
  /\ Validated(page_data.title)
  /\ NotRelevant
  /\ stats.validation_errors = 1

\* a validated record with a content of 3200 characters has been split by a
\* vectorizer with chunk_size 3000 and overlap_size 500
Split3200 ==
  /\ phase \in {"embedding", "vectorized", "stored", "store_failed", "failed"}
  /\ Len(base_data.content) = 3200
  /\ chunk_size = 3000
  /\ overlap_size = 500

\* C21: a validated record with a content of 3200 characters gives, with
\* chunk_size 3000 and overlap_size 500, exactly 2 chunks whose titles are the
\* record's title followed by (Part 1/2) and (Part 2/2); when the embedder
\* returns a vector for each of them, the handler stores them with
\* store_batch, not store_data.
C21_TwoPartsBatchStored ==
  Split3200 =>
    /\ Len(chunk_data_list) = 2
    /\ \A i \in 1..2 :
         /\ chunk_data_list[i].title.text = returned.value.title
         /\ chunk_data_list[i].title.part = <<i, 2>>
    /\ (phase \in {"stored", "store_failed"} /\ vectors = 2) =>
         /\ Len(records) = 2
         /\ stored_by = "store_batch"

\* such a record was stored
C21_Witness ==
  /\ Split3200
  /\ phase = "stored"
  /\ vectors = 2
  /\ stored_by = "store_batch"
  /\ stats.chunks_created = 2


\* C31: the three window sequences and last_request_time are changed only by
\* a caller that holds the lock: while a caller is inside the exclusive
\* section of acquire(), suspended in one of its sleeps, no step of anything
\* else, the pruning of get_stats() included, changes them.
C31_Step ==
  (requests' # requests \/ last_request_time' # last_request_time) =>
    \A q \in lock : InSection(q) => pc'[q] # pc[q]
C31_MutatedUnderLock == [][C31_Step]_vars

\* the caller p went through the pruning and the limit checks in this step
Checked(p) == pc[p] \in {"idle", "granted"} /\ pc'[p] \notin {pc[p], "lockwait"}
\* the timestamps of window w younger than the horizon at time t
Young(w, t) == SelectSeq(requests[w], LAMBDA x : x > t - Horizon(w))
\* horizon - (t - oldest) + 1 for a sequence of timestamps
WaitFor(w, stamps, t) ==
  Horizon(w) - (t - (CHOOSE x \in Range(stamps) :
                       \A y \in Range(stamps) : x <= y)) + 1

\* C32: whenever acquire() finds a window at capacity, the wait it computes,
\* horizon - (now - oldest) + 1, is greater than 0 and at most 61 seconds for
\* the minute window, 3601 for the hour window and 86401 for the day window;
\* the windows it looked at hold only timestamps younger than the horizon, and
\* the sleep it starts is one of these waits.
C32_Step ==
  \A p \in Procs :
    Checked(p) =>
      /\ \A w \in Windows :
           Len(Young(w, now)) >= Limit(w) =>
             /\ WaitFor(w, Young(w, now), now) > 0
             /\ WaitFor(w, Young(w, now), now) <= Horizon(w) + 1
      /\ pc'[p] = "sleep_window" =>
           /\ \A w \in Windows : requests'[w] = Young(w, now)
           /\ \E w \in Windows :
                /\ Len(requests'[w]) >= Limit(w)
                /\ wake'[p] - now = WaitFor(w, requests'[w], now)
           /\ wake'[p] - now > 0
           /\ wake'[p] - now <= DayHorizon + 1
C32_WaitWithinHorizon == [][C32_Step]_vars

\* a caller sleeps 59 seconds for the minute window
C32_Witness ==
  \E p \in Procs :
    /\ pc[p] = "sleep_window"
    /\ Len(requests["minute"]) >= max_per_minute
    /\ wake[p] - current_time[p] = 59

\* the scan is about to cut one more segment, at scan_start
Cuts ==
  /\ scan = "loop"
  /\ scan_start < Len(text)
  /\ Len(scan_chunks) < max_chunks_per_page

\* C34: the scan never stalls: with 0 < overlap_size < chunk_size every
\* segment after the first starts at a position strictly greater than the
\* start of the segment before it.
C34_StartsIncrease ==
  (Cuts /\ segment # <<>> /\ overlap_size > 0) => scan_start > segment.start

\* C36: split terminates for every text and every configuration with
\* chunk_size >= 1, 0 <= overlap_size < chunk_size and
\* max_chunks_per_page >= 1: an iteration that is followed by another one
\* has added a chunk or has moved the start forward, the start stays below
\* the length of the text and the chunks below max_chunks_per_page while the
\* loop runs, and the loop is left at the end of the text or at the cap.
C36_SplitTerminates ==
  /\ (scan = "loop" /\ segment # <<>>) =>
       /\ scan_start >= segment.start
       /\ segment.chunk = <<>> => scan_start > segment.start
       /\ segment.chunk # <<>> =>
            /\ scan_chunks # <<>>
            /\ scan_chunks[Len(scan_chunks)] = segment.chunk
       /\ segment.end < Len(text)
       /\ Len(scan_chunks) <= max_chunks_per_page
  /\ (scan = "returned" /\ segment # <<>>) =>
       \/ segment.end >= Len(text)
       \/ Len(scan_chunks) >= max_chunks_per_page

\* a call on a text that begins with whitespace returned because of the cap
C36_Witness ==
  /\ scan = "returned"
  /\ segment # <<>>
  /\ segment.end < Len(text)
  /\ Len(scan_chunks) = max_chunks_per_page
  /\ text[1] = " "

\* C33: after a segment cut at `end` that is not the last one, the next
\* segment starts at end - overlap_size, except when that start is less than
\* chunk_size - overlap_size beyond the start of the segment, in which case
\* it starts overlap_size / 2 before the cut; in both cases the next segment
\* starts before the cut, so that the two segments overlap (stated for
\* overlap_size >= 2, where overlap_size / 2 is not 0).
C33_NextStart ==
  (Cuts /\ segment # <<>> /\ overlap_size >= 2) =>
    /\ scan_start =
         IF (segment.end - overlap_size) - segment.start
              < chunk_size - overlap_size
           THEN segment.end - (overlap_size \div 2)
           ELSE segment.end - overlap_size
    /\ scan_start < segment.end

\* the character of the text at position k, counted from 0
At(k) == text[k + 1]
\* the ends of the matches of a '.', '!' or '?' followed by whitespace that
\* lie between the positions lo and hi of the text
MatchEnds(lo, hi) ==
  {e \in (lo + 2)..hi :
     /\ At(e - 1) = " "
     /\ e = hi \/ At(e) # " "
     /\ \E q \in lo..(e - 2) :
          /\ At(q) \in {".", "!", "?"}
          /\ \A k \in (q + 1)..(e - 1) : At(k) = " "}
\* the largest element of a set of numbers
Largest(S) == CHOOSE x \in S : \A y \in S : y <= x

\* C35: a segment whose naive cut at start + chunk_size lies before the end
\* of the text is cut at the end of the last match of '.', '!' or '?'
\* followed by whitespace within the last 200 characters before the naive
\* cut (and not before the start of the segment); without such a match, or
\* when the segment would be shorter than overlap_size, it is cut at the
\* naive cut; a segment whose naive cut is at or beyond the end of the text
\* is cut there.
C35_CutAtLastSentenceEnd ==
  segment # <<>> =>
    LET naive == segment.start + chunk_size
        lo == IF naive - 200 > segment.start THEN naive - 200
              ELSE segment.start
    IN IF naive >= Len(text) THEN segment.end = naive
       ELSE LET ends == MatchEnds(lo, naive) IN
            IF ends = {} \/ Largest(ends) - segment.start < overlap_size
              THEN segment.end = naive
              ELSE segment.end = Largest(ends)

\* a segment of a long content was cut at the end of a sentence found in the
\* last 200 characters
C35_Witness ==
  /\ segment # <<>>
  /\ chunk_size = 3000
  /\ segment.start = 0
  /\ segment.end = 2901

\* C37: text is lost only at the cap: the first segment starts at 0, every
\* other segment starts at or before the cut of the segment before it, and
\* when split returns fewer than max_chunks_per_page chunks the last segment
\* ends at or beyond the end of the text (or the text was returned whole).
C37_Step ==
  /\ segment' # segment =>
       /\ segment'.start = scan_start
       /\ segment = <<>> => segment'.start = 0
       /\ segment # <<>> => segment'.start <= segment.end
  /\ (scan' = "returned" /\ Len(scan_chunks') < max_chunks_per_page) =>
       IF segment' = <<>> THEN scan_chunks' = <<text>>
       ELSE segment'.end >= Len(text)
C37_CoversText == [][C37_Step]_vars

\* split returned fewer chunks than the cap after more than one segment
C37_Witness ==
  /\ scan = "returned"
  /\ segment # <<>>
  /\ segment.start > 0
  /\ Len(scan_chunks) < max_chunks_per_page

\* C38: in every state of a run validation_errors + pages_processed is at
\* most pages_crawled, and the handling of one page has added at most one to
\* validation_errors and processing_errors together, whether the page
\* handlers run one after the other or interleaved.
C38_CountersConsistent ==
  /\ stats.validation_errors + stats.pages_processed <= stats.pages_crawled
  /\ \A p \in Pages :
       /\ delta[p].validation_errors + delta[p].processing_errors <= 1
       /\ delta[p].validation_errors + delta[p].pages_processed
            <= delta[p].pages_crawled

\* a page was rejected and another failed after it was validated, while a
\* third page is in the embedder
C38_Witness ==
  /\ stats.validation_errors = 1
  /\ stats.processing_errors = 1
  /\ stats.pages_processed = 2
  /\ \E p \in Pages : pc[p] = "embedding"

\* C39: every dictionary that extraction returns has a content of at least
\* min_text_length (50) and at most max_text_length (10000) characters, the
\* bounds of the validator's schema, so that validation does not reject it
\* for the length of its content.
C39_ExtractedWithinBounds ==
  page_data # <<>> =>
    /\ text_len(page_data.content) >= min_text_length
    /\ text_len(page_data.content) <= max_text_length
    /\ text_len(page_data.content) \in content_min..content_max
    /\ applied = "validate_data" => "content" \notin schema_errors(page_data)

\* the title or the content has one of the general keywords as a substring
GeneralSubstring ==
  \E n \in DOMAIN general_keywords :
    \/ contains(text_lower(page_data.title), general_keywords[n])
    \/ contains(text_lower(page_data.content), general_keywords[n])

\* C40: the strict classification implies the loose relevance test: when
\* determine_page_type returns forms, business or personal for a title and
\* a content, is_relevant_content returns true for them.
C40_ClassifiedIsRelevant ==
  (applied = "determine_page_type"
     /\ returned.value \in {"forms", "business", "personal"})
    => is_relevant_content(page_data.title, page_data.content)

\* a title and a content without a general keyword were classified as
\* business
C40_Witness ==
  /\ applied = "determine_page_type"
  /\ returned.value = "business"
  /\ ~GeneralSubstring
  /\ is_relevant_content(page_data.title, page_data.content)

====
